---- MODULE Spec2Model ----
(***************************************************************************)
(* Model of cyberdog_vision's VisionManager (src/src/vision_manager.cpp):  *)
(* the lifecycle transitions, the frame ingestion thread, the two stage    *)
(* managers, the six algorithm workers, the shared counter process_num and *)
(* the shared report algo_result_, the IoU computation, the tracking       *)
(* target resolution and the face enrollment task.                         *)
(***************************************************************************)
EXTENDS Integers, Sequences, FiniteSets, TLC

\* ------------------------------------------------------------------ bounds
MaxFrames == 1
MaxAlgoCalls == 1
MaxOpen == 2
MaxActivations == 2
MaxBodies == 1
MaxBusy == 2

\* ------------------------------------------------------- program constants
buf_size_ == 6

\* -------------------------------------------------------------- vocabulary
Stage1 == {"body", "face", "focus"}
Stage2 == {"reid", "gesture", "keypoints"}
Algos == Stage1 \cup Stage2
Managers == {"main", "dep"}
Threads == {"img"} \cup Managers \cup Algos

STATUS_SELECTING == "SELECTING"
STATUS_TRACKING == "TRACKING"

VARIABLES
  lc,                 \* lifecycle state of the node
  dstep,              \* position of the executor inside on_deactivate/DestoryThread
  nAct, nCalls,       \* numbers of activations and algo_manager calls made so far
  thread_ptrs,        \* img_proc_thread_ ... keypoints_thread_ hold a thread object
  is_activate_,
  open,               \* open_body_, open_face_, ... as a function of the algorithm
  is_called,          \* <algo>_struct_.is_called
  pc,                 \* position of every thread
  process_num,        \* algo_proc_.process_num
  img_filled,         \* global_img_buf_.is_filled
  img_buf,            \* global_img_buf_.img_buf (a vector of stamped images)
  frame,              \* stamp of the last frame the producer delivered
  body_filled,        \* body_results_.is_filled
  body_infos,         \* body_results_.body_infos
  detection_img,      \* body_results_.detection_img
  algo_result_,       \* the Frame Report under construction
  loc,                \* the workers' local variables
  processing_status_,
  crashed,            \* the process died on an out-of-range access
  owed,               \* per worker: a manager's trigger is pending (flag) or being served (run)
  cyc                 \* the current cycle: which stages had a worker enabled when it
                      \* began, and the reports each stage manager published since

pipeVars == <<lc, dstep, nAct, thread_ptrs, nCalls, is_activate_, open, is_called, pc,
              process_num, img_filled, img_buf, frame, body_filled, body_infos,
              detection_img, algo_result_, loc, processing_status_, crashed,
              owed, cyc>>

\* The rectangles GetIOU is applied to and its result.
VARIABLES b1, b2, iou

iouVars == <<b1, b2, iou>>

\* The tracking-target request being served and the targets of the two trackers.
VARIABLES
  track,              \* the call of TrackingService: request, what it did, response
  reid_target,        \* the rectangle reid_ptr_ tracks
  focus_target        \* the rectangle focus_ptr_ tracks

trackVars == <<track, reid_target, focus_target>>

\* The face enrollment task.
VARIABLES
  face_detect_,
  fpc,                \* position of the FaceDetProc thread
  cur_time,           \* FaceDetProc's start time
  now,                \* std::time(NULL), in seconds
  get_face_timeout,
  mat_tmp,            \* the frame FaceDetProc took from the Latest-Frame Cell
  events,             \* the enrollment results published so far
  earlier             \* the FaceDetProc thread of an earlier ADD_FACE that was still
                      \* running when the newest one was served: its position and locals

enrollVars == <<face_detect_, fpc, cur_time, now, get_face_timeout, mat_tmp, events,
                earlier>>

\* The threads that hold global_img_buf_.mtx, body_results_.mtx, algo_proc_.mtx
\* and result_mtx_ ("free": none).
VARIABLES img_mtx, body_mtx, proc_mtx, result_mtx

lockVars == <<img_mtx, body_mtx, proc_mtx, result_mtx>>

\* The face library service.
VARIABLES
  face_lib,           \* the identities in FaceManager's library
  face_cache,         \* the identity FaceManager holds for a pending add ("": none)
  face_call,          \* the last request FaceManagerService served and its result
  nReq                \* number of face-library requests served so far

faceVars == <<face_lib, face_cache, face_call, nReq>>

\* The channel to the frame producer.
VARIABLES
  sem,                \* the semaphore set sem_set_id_: 0 mutex, 1 empty, 2 full
  ppc,                \* position of the producer
  shm,                \* stamp of the frame in the shared memory segment
  simg                \* ImageProc's local StampedImage

ipcVars == <<sem, ppc, shm, simg>>

otherVars == <<iouVars, trackVars, enrollVars, lockVars, faceVars, ipcVars>>

vars == <<pipeVars, otherVars>>

\* ----------------------------------------------------------------- helpers
Min(a, b) == IF a < b THEN a ELSE b

Rect(l, t, w, h) == [left |-> l, top |-> t, width |-> w, height |-> h]

\* The i-th body a detection of the pipeline returns.
BodyRect(i) == Rect(10 * i, 10, 50, 50)

BodiesOf(k) == [i \in 1..k |-> BodyRect(i)]

\* PersonInfoT person_info: the report after construction and after a publish.
EmptyReport == [body_hdr |-> 0, infos |-> <<>>, face_hdr |-> 0, track_hdr |-> 0]

\* BodyT body: an entry of the report's body list as Convert builds it.
NewBody(r) == [roi |-> r, gesture |-> 0, keypoints |-> 0, reid |-> 0]

NoLocal == [hdr |-> 0, n |-> 0, ok |-> FALSE]

NoDebt == [flag |-> FALSE, run |-> FALSE]

\* A cv::Mat taken from the Latest-Frame Cell: the stamp of the frame it holds,
\* or not valid when it was read from an element the vector does not hold.
NoMat == [valid |-> TRUE, stamp |-> 0]

MatOf(stamp) == [valid |-> TRUE, stamp |-> stamp]

GarbageMat == [valid |-> FALSE, stamp |-> 0]

NoCycle == [s1 |-> FALSE, s2 |-> FALSE, p1 |-> 0, p2 |-> 0]

StageOf(m) == IF m = "main" THEN Stage1 ELSE Stage2

TrigSeq(m) == IF m = "main" THEN <<"body", "face", "focus">>
              ELSE <<"reid", "gesture", "keypoints">>

\* -------------------------------------------------------------------- GetIOU
\* uint32_t and int values are modelled by their 32-bit pattern, written as the
\* two's complement integer of that pattern (so 4294967286 is written -10).
Int32Max == 2147483647

Int32Min == (-Int32Max) - 1

\* uint32_t a + b, -b, a - b and a * b, modulo 2^32.
Add32(a, b) ==
  IF a >= 0 /\ b >= 0 /\ a > Int32Max - b THEN (a + Int32Min) + (b + Int32Min)
  ELSE IF a < 0 /\ b < 0 /\ a < Int32Min - b THEN (a - Int32Min) + (b - Int32Min)
  ELSE a + b

Neg32(a) == IF a = Int32Min THEN a ELSE -a

Sub32(a, b) == Add32(a, Neg32(b))

RECURSIVE Mul32(_, _)
Mul32(a, b) ==
  IF b = 0 THEN 0
  ELSE IF b = Int32Min THEN (IF a % 2 = 1 THEN Int32Min ELSE 0)
  ELSE IF b < 0 THEN Neg32(Mul32(a, -b))
  ELSE LET d == Mul32(a, b \div 2) IN
       IF b % 2 = 1 THEN Add32(Add32(d, d), a) ELSE Add32(d, d)

\* a < b on uint32_t, std::min and std::max on uint32_t.
ULess(a, b) == IF (a < 0) = (b < 0) THEN a < b ELSE b < 0

UMin(a, b) == IF ULess(b, a) THEN b ELSE a

UMax(a, b) == IF ULess(a, b) THEN b ELSE a

\* int * int overflows (undefined behaviour) when the product leaves the range.
Abs(x) == IF x < 0 THEN -x ELSE x

IntMulOverflows(a, b) ==
  /\ a # 0 /\ b # 0
  /\ \/ a = Int32Min \/ b = Int32Min
     \/ Abs(a) > Int32Max \div Abs(b)

\* sensor_msgs::msg::RegionOfInterest
Roi(x, y, w, h) == [x_offset |-> x, y_offset |-> y, width |-> w, height |-> h]

\* GetIOU(b1, b2): the quotient is kept as the pair of its operands, the int
\* w * h and the uint32_t denominator, both converted to double by the code.
GetIOU(r1, r2) ==
  LET w == UMax(Sub32(UMin(Add32(r1.left, r1.width), Add32(r2.x_offset, r2.width)),
                      UMax(r1.left, r2.x_offset)), 0)
      h == UMax(Sub32(UMin(Add32(r1.top, r1.height), Add32(r2.y_offset, r2.height)),
                      UMax(r1.top, r2.y_offset)), 0)
      wh == Mul32(w, h)
  IN  [done |-> TRUE,
       ub |-> IntMulOverflows(w, h),
       num |-> wh,
       den |-> Sub32(Add32(Mul32(r1.width, r1.height), Mul32(r2.width, r2.height)), wh)]

NotComputed == [done |-> FALSE, ub |-> FALSE, num |-> 0, den |-> 0]

\* -------------------------------------------------------------- GetMatchBody
\* Comparisons of the doubles GetIOU returns, for denominators below 2^31. A
\* zero denominator gives an infinity or, with a zero numerator, a NaN.
IsNaN(v) == v.den = 0 /\ v.num = 0

ScoreGreater(a, b) ==
  /\ ~IsNaN(a) /\ ~IsNaN(b)
  /\ IF a.den = 0 THEN a.num > 0 /\ ~(b.den = 0 /\ b.num > 0)
     ELSE IF b.den = 0 THEN b.num < 0
     ELSE a.num * b.den > b.num * a.den

Zero == [num |-> 0, den |-> 1]

Half == [num |-> 1, den |-> 2]

\* The inner loop of GetMatchBody over the detections j..size-1 of one history
\* entry: max_score and track_rect after the loop.
RECURSIVE ScanEntry(_, _, _, _)
ScanEntry(entry, roi, j, acc) ==
  IF j > Len(entry) THEN acc
  ELSE LET score == GetIOU(entry[j], roi) IN
       IF ScoreGreater(score, acc.max_score) /\ ScoreGreater(score, Half)
       THEN ScanEntry(entry, roi, j + 1, [max_score |-> score, track_rect |-> entry[j]])
       ELSE ScanEntry(entry, roi, j + 1, acc)

NoRect == Rect(0, 0, 0, 0)

\* The outer loop of GetMatchBody from index i (of the code, the first entry
\* is index 0): for (i = size - 1; i > 0 && !is_found; --i). On a match
\* track_img = body_results_.detection_img.img; "at" is the position in h of
\* the entry that matched.
RECURSIVE ScanHistory(_, _, _)
ScanHistory(h, roi, i) ==
  IF i > 0
  THEN LET r == ScanEntry(h[i + 1], roi, 1, [max_score |-> Zero, track_rect |-> NoRect]) IN
       IF ScoreGreater(r.max_score, Half)
       THEN [is_found |-> TRUE, track_rect |-> r.track_rect, outside |-> FALSE,
             track_img |-> detection_img, at |-> i + 1]
       ELSE ScanHistory(h, roi, i - 1)
  ELSE [is_found |-> FALSE, track_rect |-> NoRect, outside |-> FALSE,
        track_img |-> 0, at |-> 0]

\* The scan of GetMatchBody. On an empty history size() - 1 wraps to the largest
\* size_t and the loop reads body_infos out of range: the process dies, or the
\* read yields garbage in which a match is found or not.
ScanOutcomes(h, roi) ==
  IF Len(h) = 0
  THEN {[is_found |-> f, track_rect |-> NoRect, outside |-> TRUE,
          track_img |-> 0, at |-> 0] : f \in BOOLEAN}
  ELSE {ScanHistory(h, roi, Len(h) - 1)}

\* ------------------------------------------------------------------- Init
PipeInit ==
  /\ lc = "unconfigured"
  /\ dstep = 0
  /\ nAct = 0
  /\ thread_ptrs = FALSE
  /\ nCalls = 0
  /\ is_activate_ = FALSE
  /\ open = [a \in Algos |-> FALSE]
  /\ is_called = [a \in Algos |-> FALSE]
  /\ pc = [t \in Threads |-> "none"]
  /\ process_num = 0
  /\ img_filled = FALSE
  /\ img_buf = <<>>
  /\ frame = 0
  /\ body_filled = FALSE
  /\ body_infos = <<>>
  /\ detection_img = 0
  /\ algo_result_ = EmptyReport
  /\ loc = [a \in Algos |-> NoLocal]
  /\ processing_status_ = STATUS_SELECTING
  /\ crashed = FALSE
  /\ owed = [a \in Algos |-> NoDebt]
  /\ cyc = NoCycle

IouIdle == b1 = Rect(0, 0, 0, 0) /\ b2 = Roi(0, 0, 0, 0) /\ iou = NotComputed

NoScan == [is_found |-> FALSE, track_rect |-> NoRect, outside |-> FALSE,
           track_img |-> 0, at |-> 0]

NoCall == [called |-> FALSE, roi |-> Roi(0, 0, 0, 0), scan |-> NoScan,
           reid_set |-> "none", focus_set |-> "none", success |-> FALSE]

TrackIdle == track = NoCall /\ reid_target = NoRect /\ focus_target = NoRect

\* No earlier FaceDetProc thread.
NoTask == [fpc |-> "none", cur_time |-> 0, get_face_timeout |-> FALSE,
           mat_tmp |-> NoMat, cancelled |-> FALSE]

EnrollIdle ==
  /\ earlier = NoTask
  /\ face_detect_ = FALSE
  /\ fpc = "none"
  /\ cur_time = 0
  /\ now = 0
  /\ get_face_timeout = FALSE
  /\ mat_tmp = NoMat
  /\ events = <<>>

\* A mutex that no thread respects.
NeverHeld(mtx) == TRUE

\* std::unique_lock and std::lock block until the mutex is free.
Free(mtx) == mtx = "free"

LockIdle == img_mtx = "free" /\ body_mtx = "free" /\ proc_mtx = "free" /\ result_mtx = "free"

\* InitIPC: SetSemInitVal(sem_set_id_, 0, 1), (1, 1), (2, 0).
SemMutex == 0

SemEmpty == 1

SemFull == 2

InitIPC == [i \in {SemMutex, SemEmpty, SemFull} |-> IF i = SemFull THEN 0 ELSE 1]

IpcIdle == sem = InitIPC /\ ppc = "idle" /\ shm = 0 /\ simg = 0

NoRequest == [command |-> "none", username |-> "", oriname |-> "", result |-> "none"]

FaceIdle == face_lib = {} /\ face_cache = "" /\ face_call = NoRequest /\ nReq = 0

Init == PipeInit /\ IouIdle /\ TrackIdle /\ EnrollIdle /\ LockIdle /\ FaceIdle /\ IpcIdle

\* ------------------------------------------------------ lifecycle controller
\* CreateThread: the nine threads start at the top of their loops.
CreateThread == [t \in Threads |-> IF t = "img" THEN "top" ELSE "wait"]

\* on_configure: Init() fails the transition when the IPC channel cannot be set up.
Configure ==
  /\ ~crashed
  /\ lc = "unconfigured"
  /\ \E ok \in BOOLEAN : lc' = IF ok THEN "inactive" ELSE "unconfigured"
  /\ UNCHANGED otherVars
  /\ UNCHANGED <<dstep, nAct, thread_ptrs, nCalls, is_activate_, open, is_called, pc,
                 process_num, img_filled, img_buf, frame, body_filled, body_infos,
                 detection_img, algo_result_, loc, processing_status_, crashed,
                 owed, cyc>>

\* An on_activate that starts the threads before it asks the camera service.
ActivateThreadsFirst ==
  /\ ~crashed
  /\ lc = "inactive" /\ dstep = 0 /\ nAct < MaxActivations
  /\ is_activate_' = TRUE
  /\ pc' = CreateThread
  /\ thread_ptrs' = TRUE
  /\ processing_status_' = STATUS_SELECTING
  /\ \E ok \in BOOLEAN : lc' = IF ok THEN "active" ELSE "inactive"
  /\ nAct' = nAct + 1
  /\ owed' = [a \in Algos |-> NoDebt]
  /\ cyc' = NoCycle
  /\ UNCHANGED otherVars
  /\ UNCHANGED <<dstep, nCalls, open, is_called, process_num, img_filled, img_buf,
                 frame, body_filled, body_infos, detection_img, algo_result_, loc,
                 crashed>>

\* on_activate: CallService, then is_activate_ = true, CreateThread, status.
Activate ==
  /\ ~crashed
  /\ lc = "inactive" /\ dstep = 0 /\ nAct < MaxActivations
  /\ \E ok \in BOOLEAN :
       IF ok
       THEN /\ is_activate_' = TRUE
            /\ pc' = CreateThread
            /\ thread_ptrs' = TRUE
            /\ processing_status_' = STATUS_SELECTING
            /\ lc' = "active"
            /\ nAct' = nAct + 1
            /\ owed' = [a \in Algos |-> NoDebt]
            /\ cyc' = NoCycle
       ELSE UNCHANGED <<is_activate_, pc, processing_status_, lc, nAct, thread_ptrs, owed, cyc>>
  /\ UNCHANGED otherVars
  /\ UNCHANGED <<dstep, nCalls, open, is_called, process_num, img_filled, img_buf,
                 frame, body_filled, body_infos, detection_img, algo_result_, loc,
                 crashed>>

\* on_deactivate, first statement: is_activate_ = false; DestoryThread follows.
\* The last session the bound allows is not deactivated, except to retry a
\* deactivation that failed.
Deactivate ==
  /\ ~crashed
  /\ lc = "active" /\ dstep = 0
  /\ nAct < MaxActivations \/ ~is_activate_
  /\ is_activate_' = FALSE
  /\ dstep' = 1
  /\ UNCHANGED otherVars
  /\ UNCHANGED <<lc, nAct, thread_ptrs, nCalls, open, is_called, pc, process_num, img_filled, img_buf,
                 frame, body_filled, body_infos, detection_img, algo_result_, loc,
                 processing_status_, crashed, owed, cyc>>

\* The order in which DestoryThread joins the threads.
JoinOrder == <<"img", "main", "dep", "body", "face", "focus", "gesture", "reid", "keypoints">>

\* joinable(): a thread that was started and not yet joined; join() returns
\* once the thread has returned.
Joined(t) == pc[t] \in {"exited", "none"}

\* WakeThread(algo): set is_called unless it is set already.
WakeThread(flags, a) == [flags EXCEPT ![a] = TRUE]

\* DestoryThread, step k: join JoinOrder[k], then the wake-up that precedes the
\* next join. After the last join on_deactivate runs ResetAlgo and CallService,
\* whose result is one of stop: when the camera stop fails the transition fails
\* and the lifecycle state stays active.
DestroyStep(stop) ==
  /\ ~crashed
  /\ dstep \in 1..9
  /\ Joined(JoinOrder[dstep])
  /\ dstep = 1 => img_mtx = "free"
  /\ dstep = 2 => body_mtx = "free"
  /\ pc' = [pc EXCEPT ![JoinOrder[dstep]] = "none"]
  /\ img_filled' = IF dstep = 1 THEN TRUE ELSE img_filled
  /\ body_filled' = IF dstep = 2 THEN TRUE ELSE body_filled
  /\ is_called' = IF dstep \in 3..8 THEN WakeThread(is_called, JoinOrder[dstep + 1])
                  ELSE is_called
  /\ IF dstep = 9
     THEN /\ open' = [a \in Algos |-> FALSE]
          /\ dstep' = 0
          /\ \E ok \in stop : lc' = IF ok THEN "inactive" ELSE "active"
     ELSE /\ dstep' = dstep + 1
          /\ UNCHANGED <<open, lc>>
  /\ UNCHANGED otherVars
  /\ UNCHANGED <<nAct, thread_ptrs, nCalls, is_activate_, process_num, img_buf, frame, body_infos,
                 detection_img, algo_result_, loc, processing_status_, crashed,
                 owed, cyc>>

\* AlgoManagerService: SetAlgoState(true) for the enable list, then
\* SetAlgoState(false) for the disable list.
SetAlgoState(o, list, value) == [a \in Algos |-> IF a \in list THEN value ELSE o[a]]

\* The request names algorithms of the set algos.
AlgoManagerService(algos) ==
  /\ ~crashed
  /\ lc \in {"inactive", "active"} /\ dstep = 0 /\ nCalls < MaxAlgoCalls
  /\ nCalls' = nCalls + 1
  /\ \E en \in SUBSET algos, dis \in SUBSET algos :
       /\ Cardinality(en) + Cardinality(dis) <= MaxOpen
       /\ open' = SetAlgoState(SetAlgoState(open, en, TRUE), dis, FALSE)
       /\ Cardinality({a \in Algos : open'[a]}) <= MaxOpen
  /\ UNCHANGED otherVars
  /\ UNCHANGED <<lc, dstep, nAct, thread_ptrs, is_activate_, is_called, pc, process_num, img_filled,
                 img_buf, frame, body_filled, body_infos, detection_img, algo_result_,
                 loc, processing_status_, crashed, owed, cyc>>

\* ------------------------------------------------------------ frame ingestion
\* ImageProc, loop head: return when the service is not active.
ImageProcTop ==
  /\ ~crashed
  /\ pc["img"] = "top"
  /\ pc' = [pc EXCEPT !["img"] = IF is_activate_ THEN "sem" ELSE "exited"]
  /\ UNCHANGED otherVars
  /\ UNCHANGED <<lc, dstep, nAct, thread_ptrs, nCalls, is_activate_, open, is_called, process_num,
                 img_filled, img_buf, frame, body_filled, body_infos, detection_img,
                 algo_result_, loc, processing_status_, crashed, owed, cyc>>

\* ImageProc, one frame: the producer posts "full", the payload is copied and
\* the frame replaces the content of the Latest-Frame Cell.
ImageProcIngest ==
  /\ ~crashed
  /\ pc["img"] = "sem"
  /\ frame < MaxFrames \/ ~is_activate_
  /\ img_mtx = "free"
  /\ frame' = Min(frame + 1, MaxFrames)
  /\ img_buf' = <<frame'>>
  /\ img_filled' = TRUE
  /\ pc' = [pc EXCEPT !["img"] = "top"]
  /\ UNCHANGED otherVars
  /\ UNCHANGED <<lc, dstep, nAct, thread_ptrs, nCalls, is_activate_, open, is_called, process_num,
                 body_filled, body_infos, detection_img, algo_result_, loc,
                 processing_status_, crashed, owed, cyc>>

\* ------------------------------------------------------------- stage managers
\* The filled flag a manager waits for.
Filled(m) == IF m = "main" THEN img_filled ELSE body_filled

\* unique_lock lk(mtx); cond.wait(lk, is_filled); is_filled = false.
ManagerWait(m) ==
  /\ ~crashed
  /\ pc[m] = "wait"
  /\ Filled(m)
  /\ (IF m = "main" THEN img_mtx ELSE body_mtx) = "free"
  /\ img_filled' = IF m = "main" THEN FALSE ELSE img_filled
  /\ body_filled' = IF m = "dep" THEN FALSE ELSE body_filled
  /\ pc' = [pc EXCEPT ![m] = "chk"]
  /\ UNCHANGED otherVars
  /\ UNCHANGED <<lc, dstep, nAct, thread_ptrs, nCalls, is_activate_, open, is_called, process_num,
                 img_buf, frame, body_infos, detection_img, algo_result_, loc,
                 processing_status_, crashed, owed, cyc>>

AnyOpen(S) == \E a \in S : open[a]

\* if (!is_activate_) {return;}  A cycle of the pipeline begins when the Stage-1
\* manager passes this test.
ManagerCheck(m) ==
  /\ ~crashed
  /\ pc[m] = "chk"
  /\ pc' = [pc EXCEPT ![m] = IF is_activate_ THEN "t1" ELSE "exited"]
  /\ cyc' = IF m = "main" /\ is_activate_
            THEN [s1 |-> AnyOpen(Stage1), s2 |-> AnyOpen(Stage2), p1 |-> 0, p2 |-> 0]
            ELSE cyc
  /\ UNCHANGED otherVars
  /\ UNCHANGED <<lc, dstep, nAct, thread_ptrs, nCalls, is_activate_, open, is_called, process_num,
                 img_filled, img_buf, frame, body_filled, body_infos, detection_img,
                 algo_result_, loc, processing_status_, crashed, owed>>

\* What a manager adds to process_num when it triggers a worker.
TriggerIncrement == 1

\* if (open_x_) { lock; if (!x_struct_.is_called) { process_num++; is_called = true; } }
ManagerTrigger(m, i) ==
  /\ ~crashed
  /\ pc[m] = <<"t1", "t2", "t3">>[i]
  /\ Free(proc_mtx)
  /\ pc' = [pc EXCEPT ![m] = <<"t2", "t3", "gate">>[i]]
  /\ LET a == TrigSeq(m)[i] IN
       IF open[a] /\ ~is_called[a]
       THEN /\ process_num' = process_num + TriggerIncrement
            /\ is_called' = [is_called EXCEPT ![a] = TRUE]
            /\ owed' = [owed EXCEPT ![a].flag = TRUE]
       ELSE UNCHANGED <<process_num, is_called, owed>>
  /\ UNCHANGED otherVars
  /\ UNCHANGED <<lc, dstep, nAct, thread_ptrs, nCalls, is_activate_, open, img_filled, img_buf,
                 frame, body_filled, body_infos, detection_img, algo_result_, loc,
                 processing_status_, crashed, cyc>>

\* The condition under which a manager waits for the counter and publishes.
Gate(m) == IF m = "main"
           THEN ~open["gesture"] /\ ~open["keypoints"] /\ ~open["reid"]
                /\ (open["body"] \/ open["face"] \/ open["focus"])
           ELSE open["gesture"] \/ open["keypoints"] \/ open["reid"]

ManagerGate(m) ==
  /\ ~crashed
  /\ pc[m] = "gate"
  /\ pc' = [pc EXCEPT ![m] = IF Gate(m) THEN "cnt" ELSE "wait"]
  /\ UNCHANGED otherVars
  /\ UNCHANGED <<lc, dstep, nAct, thread_ptrs, nCalls, is_activate_, open, is_called, process_num,
                 img_filled, img_buf, frame, body_filled, body_infos, detection_img,
                 algo_result_, loc, processing_status_, crashed, owed, cyc>>

\* The predicate of algo_proc_.cond.wait.
CounterIsZero == 0 = process_num

\* algo_proc_.cond.wait finds its predicate false: the manager blocks until a
\* notify_one wakes it.
ManagerBlock(m) ==
  /\ ~crashed
  /\ pc[m] = "cnt"
  /\ ~CounterIsZero
  /\ pc' = [pc EXCEPT ![m] = "blocked"]
  /\ UNCHANGED otherVars
  /\ UNCHANGED <<lc, dstep, nAct, thread_ptrs, nCalls, is_activate_, open, is_called, process_num,
                 img_filled, img_buf, frame, body_filled, body_infos, detection_img,
                 algo_result_, loc, processing_status_, crashed, owed, cyc>>

\* The predicate holds: publish algo_result_ and reset it (under algo_proc_.mtx
\* and result_mtx_).
ManagerPublish(m) ==
  /\ ~crashed
  /\ pc[m] = "cnt"
  /\ CounterIsZero
  /\ cyc' = IF m = "main" THEN [cyc EXCEPT !.p1 = Min(@ + 1, 2)]
            ELSE [cyc EXCEPT !.p2 = Min(@ + 1, 2)]
  /\ algo_result_' = EmptyReport
  /\ pc' = [pc EXCEPT ![m] = "wait"]
  /\ UNCHANGED otherVars
  /\ UNCHANGED <<lc, dstep, nAct, thread_ptrs, nCalls, is_activate_, open, is_called, process_num,
                 img_filled, img_buf, frame, body_filled, body_infos, detection_img,
                 loc, processing_status_, crashed, owed>>

\* ------------------------------------------------------------------- workers
\* The workers that are between their wake-up and the end of their store.
Busy == {w \in Algos : pc[w] \in {"chk", "run", "img", "store", "dec", "wr", "ntf"}}

\* cond.wait(lk, is_called); is_called = false. The model lets at most MaxBusy
\* workers be busy at a time, and while the service is active it schedules the
\* workers of sched only.
WorkerWake(w, sched) ==
  /\ ~crashed
  /\ pc[w] = "wait"
  /\ is_called[w]
  /\ w \in sched \/ ~is_activate_
  /\ Cardinality(Busy) < MaxBusy
  /\ is_called' = [is_called EXCEPT ![w] = FALSE]
  /\ owed' = [owed EXCEPT ![w] = [flag |-> FALSE, run |-> owed[w].flag \/ owed[w].run]]
  /\ pc' = [pc EXCEPT ![w] = "chk"]
  /\ UNCHANGED otherVars
  /\ UNCHANGED <<lc, dstep, nAct, thread_ptrs, nCalls, is_activate_, open, process_num, img_filled,
                 img_buf, frame, body_filled, body_infos, detection_img, algo_result_,
                 loc, processing_status_, crashed, cyc>>

\* if (!is_activate_) {return;}
WorkerCheck(w) ==
  /\ ~crashed
  /\ pc[w] = "chk"
  /\ pc' = [pc EXCEPT ![w] = IF is_activate_ THEN "run" ELSE "exited"]
  /\ UNCHANGED otherVars
  /\ UNCHANGED <<lc, dstep, nAct, thread_ptrs, nCalls, is_activate_, open, is_called, process_num,
                 img_filled, img_buf, frame, body_filled, body_infos, detection_img,
                 algo_result_, loc, processing_status_, crashed, owed, cyc>>

\* An insert that erases nothing.
PushHistoryNoErase(h, infos) == Append(h, infos)

\* body_infos after BodyDet has stored a detection: the oldest entry is erased
\* when the history holds buf_size_ entries.
PushHistory(h, infos) ==
  Append(IF Len(h) >= buf_size_ THEN Tail(h) ELSE h, infos)

\* A Stage-1 worker takes global_img_buf_.img_buf.back() under
\* global_img_buf_.mtx and calls its collaborator. BodyDet locks
\* body_results_.mtx for the detection and stores a successful detection in the
\* history; it goes on, with the mutex, to BodyDetImage. FocusTrack resets the
\* status when the target is lost. back() of an empty vector is undefined: the
\* process dies or reads garbage.
Stage1Run(w) ==
  /\ ~crashed
  /\ pc[w] = "run"
  /\ w \in Stage1
  /\ img_mtx = "free"
  /\ IF img_buf = <<>>
     THEN /\ crashed' \in BOOLEAN
          /\ loc' = [loc EXCEPT ![w] = NoLocal]
          /\ pc' = [pc EXCEPT ![w] = "store"]
          /\ UNCHANGED <<body_infos, processing_status_, body_mtx>>
     ELSE LET hdr == img_buf[Len(img_buf)] IN
          /\ crashed' = crashed
          /\ \/ /\ w = "body"
                /\ body_mtx = "free"
                /\ \E k \in 0..MaxBodies :
                     /\ loc' = [loc EXCEPT ![w] = [hdr |-> hdr, n |-> k, ok |-> TRUE]]
                     /\ body_infos' = PushHistory(body_infos, BodiesOf(k))
                /\ body_mtx' = "body"
                /\ pc' = [pc EXCEPT ![w] = "img"]
                /\ UNCHANGED processing_status_
             \/ /\ w = "body"
                /\ body_mtx = "free"
                /\ loc' = [loc EXCEPT ![w] = [hdr |-> hdr, n |-> 0, ok |-> FALSE]]
                /\ pc' = [pc EXCEPT ![w] = "store"]
                /\ UNCHANGED <<body_infos, processing_status_, body_mtx>>
             \/ /\ w = "face"
                /\ loc' = [loc EXCEPT ![w] = [hdr |-> hdr, n |-> 0, ok |-> TRUE]]
                /\ pc' = [pc EXCEPT ![w] = "store"]
                /\ UNCHANGED <<body_infos, processing_status_, body_mtx>>
             \/ /\ w = "focus"
                /\ \E is_success \in BOOLEAN, lost \in BOOLEAN :
                     /\ loc' = [loc EXCEPT ![w] = [hdr |-> hdr, n |-> 0, ok |-> is_success]]
                     /\ processing_status_' = IF lost THEN STATUS_SELECTING
                                              ELSE processing_status_
                /\ pc' = [pc EXCEPT ![w] = "store"]
                /\ UNCHANGED <<body_infos, body_mtx>>
  /\ UNCHANGED <<iouVars, trackVars, enrollVars, faceVars, ipcVars, img_mtx, proc_mtx, result_mtx>>
  /\ UNCHANGED <<lc, dstep, nAct, thread_ptrs, nCalls, is_activate_, open, is_called, process_num,
                 img_filled, img_buf, frame, detection_img, body_filled, algo_result_,
                 owed, cyc>>

\* BodyDet after push_back: detection_img is replaced by the frame of the
\* detection, is_filled is set and the mutex is unlocked.
BodyDetImage ==
  /\ ~crashed
  /\ pc["body"] = "img"
  /\ detection_img' = loc["body"].hdr
  /\ body_filled' = TRUE
  /\ body_mtx' = "free"
  /\ pc' = [pc EXCEPT !["body"] = "store"]
  /\ UNCHANGED <<iouVars, trackVars, enrollVars, faceVars, ipcVars, img_mtx, proc_mtx, result_mtx>>
  /\ UNCHANGED <<lc, dstep, nAct, thread_ptrs, nCalls, is_activate_, open, is_called, process_num,
                 img_filled, img_buf, frame, body_infos, algo_result_, loc,
                 processing_status_, crashed, owed, cyc>>

\* The Body worker is between its push_back and the end of its critical section.
BodyInserting == pc["body"] = "img"

\* A Stage-2 worker takes body_results_.body_infos.back() and
\* body_results_.detection_img and calls its collaborator, which answers with one
\* entry per body it was given. ReIDProc resets the status when the target is
\* lost. The worker adopts body_results_.mtx without having locked it: it reads
\* whatever the Body worker is doing, and at the end of the block it unlocks
\* the mutex, whoever holds it. back() of an empty vector and a read that races
\* with the Body worker's insert are undefined: the process dies, or the read
\* yields what the vector and the image hold at that moment.
Stage2Run(w) ==
  /\ ~crashed
  /\ pc[w] = "run"
  /\ w \in Stage2
  /\ pc' = [pc EXCEPT ![w] = "store"]
  /\ body_mtx' = "free"
  /\ IF body_infos = <<>>
     THEN /\ crashed' \in BOOLEAN
          /\ loc' = [loc EXCEPT ![w] = NoLocal]
          /\ UNCHANGED processing_status_
     ELSE LET n == Len(body_infos[Len(body_infos)]) IN
          /\ IF BodyInserting THEN crashed' \in BOOLEAN ELSE crashed' = crashed
          /\ \/ /\ w = "reid"
                /\ \E found \in BOOLEAN, lost \in BOOLEAN :
                     /\ loc' = [loc EXCEPT ![w] = [hdr |-> detection_img, n |-> n, ok |-> found]]
                     /\ processing_status_' = IF lost THEN STATUS_SELECTING
                                              ELSE processing_status_
             \/ /\ w = "gesture"
                /\ \E is_success \in BOOLEAN :
                     loc' = [loc EXCEPT ![w] = [hdr |-> detection_img,
                                                n |-> IF is_success THEN n ELSE 0,
                                                ok |-> is_success]]
                /\ UNCHANGED processing_status_
             \/ /\ w = "keypoints"
                /\ loc' = [loc EXCEPT ![w] = [hdr |-> detection_img, n |-> n, ok |-> TRUE]]
                /\ UNCHANGED processing_status_
  /\ UNCHANGED <<iouVars, trackVars, enrollVars, faceVars, ipcVars, img_mtx, proc_mtx, result_mtx>>
  /\ UNCHANGED <<lc, dstep, nAct, thread_ptrs, nCalls, is_activate_, open, is_called, process_num,
                 img_filled, img_buf, frame, body_filled, body_infos, detection_img,
                 algo_result_, owed, cyc>>

\* Convert(header, infos, body_info): the body list is rebuilt from the detection.
ConvertBody(hdr, k, rep) ==
  [rep EXCEPT !.body_hdr = hdr, !.infos = [i \in 1..k |-> NewBody(BodyRect(i))]]

\* Convert(gesture infos, body_info) and Convert(keypoints, body_info): entry i
\* of the result is written into to.infos[i], whatever the size of to.infos.
\* Only the writes that fall inside the list are visible.
ConvertGesture(hdr, k, rep) ==
  [rep EXCEPT !.infos = [i \in 1..Len(rep.infos) |->
      IF i <= k THEN [rep.infos[i] EXCEPT !.gesture = hdr] ELSE rep.infos[i]]]

ConvertKeypoints(hdr, k, rep) ==
  [rep EXCEPT !.infos = [i \in 1..Len(rep.infos) |->
      IF i <= k THEN [rep.infos[i] EXCEPT !.keypoints = hdr] ELSE rep.infos[i]]]

\* AddReid returns at once unless the body list is empty, and then writes
\* infos[0].reid; ReIDProc then stamps the track result with the body header.
ReidWritesOutside(rep) == Len(rep.infos) = 0

\* The person id GetReIDInfo returns when it finds the target.
person_id == 1

\* AddReid(body_info, id, tracked): if (0 != infos.size()) return; with an
\* empty list the loop over the entries makes no turn and infos[index].reid,
\* index 0, is written outside the list, which leaves the list as it was.
AddReid(rep, id) == IF Len(rep.infos) # 0 THEN rep ELSE rep

ConvertReid(rep) == [rep EXCEPT !.track_hdr = rep.body_hdr]

\* The report after worker w has stored the result it holds in l.
Stored(w, l, rep) ==
  CASE w = "body" -> ConvertBody(l.hdr, l.n, rep)
    [] w = "face" -> [rep EXCEPT !.face_hdr = l.hdr]
    [] w = "focus" -> IF l.ok THEN [rep EXCEPT !.track_hdr = l.hdr] ELSE rep
    [] w = "reid" -> IF l.ok THEN ConvertReid(AddReid(rep, person_id)) ELSE rep
    [] w = "gesture" -> IF l.ok THEN ConvertGesture(l.hdr, l.n, rep) ELSE rep
    [] w = "keypoints" -> ConvertKeypoints(l.hdr, l.n, rep)

\* Whether that store writes outside the report's body list.
WritesOutside(w, l, rep) ==
  CASE w = "reid" -> l.ok /\ ReidWritesOutside(rep)
    [] w = "gesture" -> l.ok /\ l.n > Len(rep.infos)
    [] w = "keypoints" -> l.n > Len(rep.infos)
    [] OTHER -> FALSE

\* What a worker subtracts from process_num when it stores its result.
CompletionDecrement == 1

\* algo_proc_.cond.notify_one(): one of the managers blocked on the condition
\* re-evaluates its predicate; the notification is lost when none is blocked.
NotifyOne(p) ==
  IF \E m \in Managers : p[m] = "blocked"
  THEN {[p EXCEPT ![m] = "cnt"] : m \in {x \in Managers : p[x] = "blocked"}}
  ELSE {p}

\* Under algo_proc_.mtx and result_mtx_: process_num--, write the worker's
\* fields, notify when the counter is zero.
WorkerStore(w) ==
  /\ ~crashed
  /\ pc[w] = "store"
  /\ process_num' = process_num - CompletionDecrement
  /\ algo_result_' = Stored(w, loc[w], algo_result_)
  /\ IF WritesOutside(w, loc[w], algo_result_)
     THEN crashed' \in BOOLEAN
     ELSE UNCHANGED crashed
  /\ loc' = [loc EXCEPT ![w] = NoLocal]
  /\ owed' = [owed EXCEPT ![w].run = FALSE]
  /\ pc' \in IF process_num' = 0 THEN NotifyOne([pc EXCEPT ![w] = "wait"])
             ELSE {[pc EXCEPT ![w] = "wait"]}
  /\ UNCHANGED otherVars
  /\ UNCHANGED <<lc, dstep, nAct, thread_ptrs, nCalls, is_activate_, open, is_called, img_filled,
                 img_buf, frame, body_filled, body_infos, detection_img,
                 processing_status_, cyc>>

\* ------------------------------------------------ the store, step by step
\* The critical section of a worker's store, statement by statement:
\* std::lock(algo_proc_.mtx, result_mtx_) acquires both mutexes or none.
StoreLock(w) ==
  /\ ~crashed
  /\ pc[w] = "store"
  /\ Free(proc_mtx)
  /\ Free(result_mtx)
  /\ proc_mtx' = w
  /\ result_mtx' = w
  /\ pc' = [pc EXCEPT ![w] = "dec"]
  /\ UNCHANGED <<iouVars, trackVars, enrollVars, faceVars, ipcVars, img_mtx, body_mtx>>
  /\ UNCHANGED <<lc, dstep, nAct, thread_ptrs, nCalls, is_activate_, open, is_called, process_num,
                 img_filled, img_buf, frame, body_filled, body_infos, detection_img,
                 algo_result_, loc, processing_status_, crashed, owed, cyc>>

\* algo_proc_.process_num--;
StoreDecrement(w) ==
  /\ ~crashed
  /\ pc[w] = "dec"
  /\ process_num' = process_num - CompletionDecrement
  /\ owed' = [owed EXCEPT ![w].run = FALSE]
  /\ pc' = [pc EXCEPT ![w] = "wr"]
  /\ UNCHANGED otherVars
  /\ UNCHANGED <<lc, dstep, nAct, thread_ptrs, nCalls, is_activate_, open, is_called, img_filled,
                 img_buf, frame, body_filled, body_infos, detection_img, algo_result_,
                 loc, processing_status_, crashed, cyc>>

\* Convert(..., algo_result_...): the worker's fields of the report.
StoreWrite(w) ==
  /\ ~crashed
  /\ pc[w] = "wr"
  /\ algo_result_' = Stored(w, loc[w], algo_result_)
  /\ IF WritesOutside(w, loc[w], algo_result_)
     THEN crashed' \in BOOLEAN
     ELSE UNCHANGED crashed
  /\ loc' = [loc EXCEPT ![w] = NoLocal]
  /\ pc' = [pc EXCEPT ![w] = "ntf"]
  /\ UNCHANGED otherVars
  /\ UNCHANGED <<lc, dstep, nAct, thread_ptrs, nCalls, is_activate_, open, is_called, process_num,
                 img_filled, img_buf, frame, body_filled, body_infos, detection_img,
                 processing_status_, owed, cyc>>

\* if (0 == process_num) notify_one(); the end of the block unlocks both.
StoreNotify(w) ==
  /\ ~crashed
  /\ pc[w] = "ntf"
  /\ pc' \in IF process_num = 0 THEN NotifyOne([pc EXCEPT ![w] = "wait"])
             ELSE {[pc EXCEPT ![w] = "wait"]}
  /\ proc_mtx' = "free"
  /\ result_mtx' = "free"
  /\ UNCHANGED <<iouVars, trackVars, enrollVars, faceVars, ipcVars, img_mtx, body_mtx>>
  /\ UNCHANGED <<lc, dstep, nAct, thread_ptrs, nCalls, is_activate_, open, is_called, process_num,
                 img_filled, img_buf, frame, body_filled, body_infos, detection_img,
                 algo_result_, loc, processing_status_, crashed, owed, cyc>>

\* A manager locks algo_proc_.mtx and evaluates the predicate of cond.wait: it
\* goes on with the mutex, or blocks and releases it.
ManagerCount(m) ==
  /\ ~crashed
  /\ pc[m] = "cnt"
  /\ Free(proc_mtx)
  /\ IF CounterIsZero
     THEN /\ proc_mtx' = m
          /\ pc' = [pc EXCEPT ![m] = "pub"]
     ELSE /\ proc_mtx' = proc_mtx
          /\ pc' = [pc EXCEPT ![m] = "blocked"]
  /\ UNCHANGED <<iouVars, trackVars, enrollVars, faceVars, ipcVars, img_mtx, body_mtx, result_mtx>>
  /\ UNCHANGED <<lc, dstep, nAct, thread_ptrs, nCalls, is_activate_, open, is_called, process_num,
                 img_filled, img_buf, frame, body_filled, body_infos, detection_img,
                 algo_result_, loc, processing_status_, crashed, owed, cyc>>

\* Still under algo_proc_.mtx the manager locks result_mtx_, publishes the
\* report and resets it; both mutexes are released.
ManagerPub(m) ==
  /\ ~crashed
  /\ pc[m] = "pub"
  /\ Free(result_mtx)
  /\ cyc' = IF m = "main" THEN [cyc EXCEPT !.p1 = Min(@ + 1, 2)]
            ELSE [cyc EXCEPT !.p2 = Min(@ + 1, 2)]
  /\ algo_result_' = EmptyReport
  /\ pc' = [pc EXCEPT ![m] = "wait"]
  /\ proc_mtx' = "free"
  /\ UNCHANGED <<iouVars, trackVars, enrollVars, faceVars, ipcVars, img_mtx, body_mtx, result_mtx>>
  /\ UNCHANGED <<lc, dstep, nAct, thread_ptrs, nCalls, is_activate_, open, is_called, process_num,
                 img_filled, img_buf, frame, body_filled, body_infos, detection_img,
                 loc, processing_status_, crashed, owed>>

\* ------------------------------------------------------------- specification
ThreadStep(sched) ==
  \/ ImageProcTop
  \/ ImageProcIngest
  \/ \E m \in Managers : ManagerWait(m)
  \/ \E m \in Managers : ManagerCheck(m)
  \/ \E m \in Managers, i \in 1..3 : ManagerTrigger(m, i)
  \/ \E m \in Managers : ManagerGate(m)
  \/ \E m \in Managers : ManagerBlock(m)
  \/ \E m \in Managers : ManagerPublish(m)
  \/ \E w \in Algos : WorkerWake(w, sched)
  \/ \E w \in Algos : WorkerCheck(w)
  \/ \E w \in Algos : Stage1Run(w)
  \/ BodyDetImage
  \/ \E w \in Algos : Stage2Run(w)
  \/ \E w \in Algos : WorkerStore(w)

\* The pipeline with a camera service that answers the stop request.
Next ==
  \/ Configure
  \/ Activate
  \/ Deactivate
  \/ DestroyStep({TRUE})
  \/ AlgoManagerService(Algos)
  \/ ThreadStep(Algos)

Spec == Init /\ [][Next]_vars

\* The pipeline with a camera service that may fail the stop request, so that
\* on_deactivate is retried. The clients ask for the algorithms of RetryClients
\* only, and while the service is active only the workers of RetrySched run.
RetryClients == {"body"}

RetrySched == {"body", "gesture"}

RetryNext ==
  \/ Configure
  \/ Activate
  \/ Deactivate
  \/ DestroyStep(BOOLEAN)
  \/ AlgoManagerService(RetryClients)
  \/ ThreadStep(RetrySched)

RetrySpec == Init /\ [][RetryNext]_vars

\* on_cleanup: the nine thread pointers, the publishers, services and
\* collaborators are reset; the node is unconfigured again.
Cleanup ==
  /\ ~crashed
  /\ lc = "inactive" /\ dstep = 0
  /\ lc' = "unconfigured"
  /\ thread_ptrs' = FALSE
  /\ UNCHANGED otherVars
  /\ UNCHANGED <<dstep, nAct, nCalls, is_activate_, open, is_called, pc, process_num,
                 img_filled, img_buf, frame, body_filled, body_infos, detection_img,
                 algo_result_, loc, processing_status_, crashed, owed, cyc>>

\* ~VisionManager of a node that is not active: DestoryThread begins with
\* img_proc_thread_->joinable(). With the pointers set the threads were joined
\* by on_deactivate, no join is made, and the filled flags and the trigger
\* flags are set. Through an empty pointer the call is undefined: the process
\* dies, or goes on as if no thread were joinable.
Destructor ==
  /\ ~crashed
  /\ lc \in {"unconfigured", "inactive"} /\ dstep = 0
  /\ lc' = "destroyed"
  /\ crashed' \in BOOLEAN
  /\ crashed' => ~thread_ptrs
  /\ IF crashed'
     THEN UNCHANGED <<img_filled, body_filled, is_called>>
     ELSE /\ img_filled' = TRUE
          /\ body_filled' = TRUE
          /\ is_called' = [a \in Algos |-> TRUE]
  /\ UNCHANGED otherVars
  /\ UNCHANGED <<dstep, nAct, thread_ptrs, nCalls, is_activate_, open, pc, process_num,
                 img_buf, frame, body_infos, detection_img, algo_result_, loc,
                 processing_status_, owed, cyc>>

\* The node from construction to destruction: the lifecycle transitions with
\* on_cleanup, the threads of a session, and the destructor.
LifeNext ==
  \/ Configure
  \/ Activate
  \/ Deactivate
  \/ DestroyStep(BOOLEAN)
  \/ Cleanup
  \/ Destructor
  \/ AlgoManagerService(RetryClients)
  \/ ThreadStep(RetrySched)

LifeSpec == Init /\ [][LifeNext]_vars

\* The steps of one thread, and the pipeline under a scheduler that lets every
\* thread run: the producer keeps delivering frames and the collaborators return.
ImageProc == ImageProcTop \/ ImageProcIngest

AlgoManager(m) ==
  \/ ManagerWait(m)
  \/ ManagerCheck(m)
  \/ \E i \in 1..3 : ManagerTrigger(m, i)
  \/ ManagerGate(m)
  \/ ManagerBlock(m)
  \/ ManagerPublish(m)

Worker(w) ==
  \/ WorkerWake(w, Algos)
  \/ WorkerCheck(w)
  \/ Stage1Run(w)
  \/ w = "body" /\ BodyDetImage
  \/ Stage2Run(w)
  \/ WorkerStore(w)

FairSpec ==
  /\ Init /\ [][Next]_vars
  /\ WF_vars(DestroyStep({TRUE}))
  /\ WF_vars(ImageProc)
  /\ \A m \in Managers : WF_vars(AlgoManager(m))
  /\ \A w \in Algos : WF_vars(Worker(w))

\* GetIOU applied to a detected body and a requested region. The coordinates
\* and sizes lie on a grid of IouStep; the requested region may also have the
\* side IouBigSide.
IouStep == 10

IouBigSide == 65536

IouCoords == {0, IouStep, 2 * IouStep}

IouBodySizes == {IouStep, 2 * IouStep}

IouRoiSizes == IouBodySizes \cup {IouBigSide}

IouInit ==
  /\ PipeInit
  /\ b1 \in {Rect(l, t, w, h) : l \in IouCoords, t \in IouCoords,
                                w \in IouBodySizes, h \in IouBodySizes}
  /\ b2 \in {Roi(x, y, w, h) : x \in IouCoords, y \in IouCoords,
                               w \in IouRoiSizes, h \in IouRoiSizes}
  /\ iou = NotComputed
  /\ TrackIdle
  /\ EnrollIdle
  /\ LockIdle
  /\ IpcIdle
  /\ FaceIdle

CallGetIOU ==
  /\ ~iou.done
  /\ iou' = GetIOU(b1, b2)
  /\ UNCHANGED <<pipeVars, b1, b2, trackVars, enrollVars, lockVars, faceVars, ipcVars>>

IouNext == CallGetIOU

IouSpec == IouInit /\ [][IouNext]_vars

\* ----------------------------------------------------------- TrackingService
\* The histories, requests and enable sets TrackingService is applied to: the
\* service is active, the threads wait. Entry i of the history was detected on
\* frame i, detection_img is the frame of the newest entry, and one more frame
\* has been ingested.
MaxHistory == 3

MaxEntry == 2

TrackRects == {Rect(10, 10, 50, 50), Rect(12, 10, 50, 50), Rect(200, 10, 50, 50)}

TrackRois == {Roi(10, 10, 50, 50)}

SeqsUpTo(S, n) == UNION {[1..k -> S] : k \in 0..n}

TrackInit ==
  /\ lc = "active"
  /\ dstep = 0
  /\ nAct = 1
  /\ thread_ptrs = TRUE
  /\ nCalls = 1
  /\ is_activate_ = TRUE
  /\ open \in {[a \in Algos |-> a \in on] : on \in SUBSET {"reid", "focus"}}
  /\ is_called = [a \in Algos |-> FALSE]
  /\ pc = CreateThread
  /\ process_num = 0
  /\ img_filled = FALSE
  /\ body_infos \in SeqsUpTo(SeqsUpTo(TrackRects, MaxEntry), MaxHistory)
  /\ \/ frame = Len(body_infos) + 1 /\ img_buf = <<frame>>
     \/ body_infos = <<>> /\ frame = 0 /\ img_buf = <<>>
  /\ body_filled = FALSE
  /\ detection_img = Len(body_infos)
  /\ algo_result_ = EmptyReport
  /\ loc = [a \in Algos |-> NoLocal]
  /\ processing_status_ = STATUS_SELECTING
  /\ crashed = FALSE
  /\ owed = [a \in Algos |-> NoDebt]
  /\ cyc = NoCycle
  /\ IouIdle
  /\ TrackIdle
  /\ EnrollIdle
  /\ LockIdle
  /\ IpcIdle
  /\ FaceIdle

\* GetMatchBody after its scan: reid_ptr_->SetTracker answers set, which is
\* "ok" or "fail"; the function returns 0 only when the scan found a body and
\* the tracker took it.
GetMatchBodyReturnsZero(scan, set) == scan.is_found /\ set = "ok"

\* TrackingService(req, res): the ReID branch, then the Focus branch, which
\* takes global_img_buf_.img_buf.back() under global_img_buf_.mtx. back() of an
\* empty vector is undefined: the process dies or the tracker is set on garbage.
TrackingService ==
  /\ ~crashed
  /\ ~track.called
  /\ \E roi \in TrackRois, rset \in {"ok", "fail"}, fset \in {"ok", "fail"},
        dies \in BOOLEAN :
     \E scan \in ScanOutcomes(body_infos, roi) :
       LET reid_set == IF open["reid"] /\ scan.is_found THEN rset ELSE "none"
           focus_set == IF open["focus"] THEN fset ELSE "none"
           matched == GetMatchBodyReturnsZero(scan, reid_set)
       IN  /\ open["reid"] => body_mtx = "free"
           /\ open["focus"] => img_mtx = "free"
           /\ rset = "ok" \/ (open["reid"] /\ scan.is_found)
           /\ fset = "ok" \/ open["focus"]
           /\ crashed' = (dies /\ ((open["reid"] /\ scan.outside)
                                   \/ (open["focus"] /\ img_buf = <<>>)))
           /\ dies => ((open["reid"] /\ scan.outside) \/ (open["focus"] /\ img_buf = <<>>))
           /\ IF crashed'
              THEN UNCHANGED <<track, reid_target, focus_target, processing_status_>>
              ELSE /\ reid_target' = IF reid_set = "ok" THEN scan.track_rect
                                     ELSE reid_target
                   /\ focus_target' = IF focus_set = "ok"
                                      THEN Rect(roi.x_offset, roi.y_offset, roi.width, roi.height)
                                      ELSE focus_target
                   /\ processing_status_' =
                        IF (open["reid"] /\ matched) \/ focus_set = "ok"
                        THEN STATUS_TRACKING ELSE processing_status_
                   /\ track' = [called |-> TRUE, roi |-> roi,
                                scan |-> IF open["reid"] THEN scan ELSE NoScan,
                                reid_set |-> reid_set, focus_set |-> focus_set,
                                success |-> IF open["focus"] THEN focus_set = "ok"
                                            ELSE open["reid"] /\ matched]
  /\ UNCHANGED <<lc, dstep, nAct, thread_ptrs, nCalls, is_activate_, open, is_called, pc, process_num,
                 img_filled, img_buf, frame, body_filled, body_infos, detection_img,
                 algo_result_, loc, owed, cyc, iouVars, enrollVars, lockVars,
                 faceVars, ipcVars>>

TrackNext == TrackingService

TrackSpec == TrackInit /\ [][TrackNext]_vars

\* --------------------------------------------------------- Detection History
\* BodyDet applied to the histories of up to buf_size_ entries. The oldest entry
\* of a history holds one body more than a detection of the model returns, the
\* other entries are detections of the model. The session is active with Body
\* enabled, a frame is in the cell, the Body worker was triggered and is about
\* to detect, and the Stage-1 manager waits for the counter.
OldestEntry == BodiesOf(MaxBodies + 1)

HistEntries == {BodiesOf(k) : k \in 0..MaxBodies}

Histories ==
  {<<>>} \cup UNION {{<<OldestEntry>> \o t : t \in [1..k -> HistEntries]} :
                       k \in 0..(buf_size_ - 1)}

HistInit ==
  /\ lc = "active"
  /\ dstep = 0
  /\ nAct = 1
  /\ thread_ptrs = TRUE
  /\ nCalls = 1
  /\ is_activate_ = TRUE
  /\ open = [a \in Algos |-> a = "body"]
  /\ is_called = [a \in Algos |-> FALSE]
  /\ pc = [CreateThread EXCEPT !["img"] = "sem", !["main"] = "blocked", !["body"] = "run"]
  /\ process_num = 1
  /\ img_filled = FALSE
  /\ img_buf = <<1>>
  /\ frame = 1
  /\ body_filled = FALSE
  /\ body_infos \in Histories
  /\ detection_img = IF body_infos = <<>> THEN 0 ELSE 1
  /\ algo_result_ = EmptyReport
  /\ loc = [a \in Algos |-> NoLocal]
  /\ processing_status_ = STATUS_SELECTING
  /\ crashed = FALSE
  /\ owed = [a \in Algos |-> IF a = "body" THEN [flag |-> FALSE, run |-> TRUE]
                              ELSE NoDebt]
  /\ cyc = [s1 |-> TRUE, s2 |-> FALSE, p1 |-> 0, p2 |-> 0]
  /\ IouIdle
  /\ TrackIdle
  /\ EnrollIdle
  /\ LockIdle
  /\ IpcIdle
  /\ FaceIdle

HistNext ==
  \/ Stage1Run("body")
  \/ BodyDetImage
  \/ WorkerStore("body")
  \/ ManagerPublish("main")

HistSpec == HistInit /\ [][HistNext]_vars

\* ------------------------------------------------------------ face enrollment
\* The deadline of FaceDetProc, the step of the clock and the time at which the
\* model stops the clock.
kEnrollSeconds == 40

TickSeconds == 20

MaxClock == 60

\* The serving node: active, no algorithm enabled, the threads at the top of
\* their loops, no frame delivered yet.
EnrollInit ==
  /\ lc = "active"
  /\ dstep = 0
  /\ nAct = 1
  /\ thread_ptrs = TRUE
  /\ nCalls = 0
  /\ is_activate_ = TRUE
  /\ open = [a \in Algos |-> FALSE]
  /\ is_called = [a \in Algos |-> FALSE]
  /\ pc = CreateThread
  /\ process_num = 0
  /\ img_filled = FALSE
  /\ img_buf = <<>>
  /\ frame = 0
  /\ body_filled = FALSE
  /\ body_infos = <<>>
  /\ detection_img = 0
  /\ algo_result_ = EmptyReport
  /\ loc = [a \in Algos |-> NoLocal]
  /\ processing_status_ = STATUS_SELECTING
  /\ crashed = FALSE
  /\ owed = [a \in Algos |-> NoDebt]
  /\ cyc = NoCycle
  /\ IouIdle
  /\ TrackIdle
  /\ EnrollIdle
  /\ LockIdle
  /\ IpcIdle
  /\ FaceIdle

\* The identities the clients name, and the commands they send ("OTHER": a
\* command FaceManagerService does not know).
Names == {"host", "guest"}

Commands == {"ADD_FACE", "CANCLE_ADD_FACE", "CONFIRM_LAST_FACE", "UPDATE_FACE_ID",
             "DELETE_FACE", "GET_ALL_FACES", "OTHER"}

\* A test that finds no name empty.
NeverEmpty(name) == FALSE

\* request->username.length() == 0
EmptyName(name) == name = ""

\* The requests FaceManagerService answers with -1.
Refused(command, username, oriname) ==
  \/ command \in {"ADD_FACE", "CONFIRM_LAST_FACE", "DELETE_FACE"} /\ EmptyName(username)
  \/ command = "UPDATE_FACE_ID" /\ (EmptyName(username) \/ EmptyName(oriname))

\* FaceManagerService(request, response). ok is the answer of the FaceManager
\* call the command makes. ADD_FACE with a user name records the identity of
\* the pending add, sets face_detect_ and starts a detached FaceDetProc thread,
\* which reads the clock; the model serves one enrollment.
FaceManagerService(command, username, oriname) ==
  /\ ~crashed
  /\ \E ok \in BOOLEAN :
       LET refused == Refused(command, username, oriname)
           starts == command = "ADD_FACE" /\ ~refused
           calls == command \in {"CANCLE_ADD_FACE", "CONFIRM_LAST_FACE",
                                 "UPDATE_FACE_ID", "DELETE_FACE"} /\ ~refused
           done == calls /\ ok
       IN  /\ starts => fpc = "none"
           /\ ok \/ calls
           /\ face_call' =
                [command |-> command, username |-> username, oriname |-> oriname,
                 result |-> IF command = "OTHER" THEN "RESULT_INVALID_ARGS"
                            ELSE IF refused THEN "-1"
                            ELSE IF calls /\ ~ok THEN "fail"
                            ELSE "0"]
           /\ face_detect_' = IF starts THEN TRUE
                              ELSE IF command = "CANCLE_ADD_FACE" THEN FALSE
                              ELSE face_detect_
           /\ fpc' = IF starts THEN "loop" ELSE fpc
           /\ cur_time' = IF starts THEN now ELSE cur_time
           /\ get_face_timeout' = IF starts THEN TRUE ELSE get_face_timeout
           /\ face_cache' =
                IF starts THEN username
                ELSE IF done /\ command \in {"CANCLE_ADD_FACE", "CONFIRM_LAST_FACE"} THEN ""
                ELSE face_cache
           /\ face_lib' =
                IF done /\ command = "CONFIRM_LAST_FACE" THEN face_lib \cup {username}
                ELSE IF done /\ command = "UPDATE_FACE_ID" /\ oriname \in face_lib
                     THEN (face_lib \ {oriname}) \cup {username}
                ELSE IF done /\ command = "DELETE_FACE" THEN face_lib \ {username}
                ELSE face_lib
  /\ UNCHANGED <<pipeVars, iouVars, trackVars, lockVars, ipcVars, now, mat_tmp, events,
                 earlier>>

\* An ADD_FACE request, with or without a user name.
AddFace ==
  /\ \E username \in Names \cup {""} : FaceManagerService("ADD_FACE", username, "")
  /\ UNCHANGED nReq

\* A CANCLE_ADD_FACE request during an enrollment.
CancelAddFace ==
  /\ face_detect_
  /\ FaceManagerService("CANCLE_ADD_FACE", "", "")
  /\ UNCHANGED nReq

\* while (difftime(time(NULL), cur_time) < 40 && face_detect_)
FaceLoopHead ==
  /\ ~crashed
  /\ fpc = "loop"
  /\ IF now - cur_time < kEnrollSeconds /\ face_detect_
     THEN fpc' = "wait" /\ get_face_timeout' = FALSE
     ELSE fpc' = "after" /\ UNCHANGED get_face_timeout
  /\ UNCHANGED <<pipeVars, iouVars, trackVars, lockVars, faceVars, ipcVars, earlier, face_detect_, cur_time, now,
                 mat_tmp, events>>

\* unique_lock lk_img(global_img_buf_.mtx, adopt_lock); cond.wait(lk_img,
\* is_filled). The thread has not locked the mutex it adopts. When is_filled is
\* set the wait returns at once and the thread goes on without the mutex; when
\* it is not set the wait unlocks the mutex, whoever holds it, and blocks.
FaceWait ==
  /\ ~crashed
  /\ fpc = "wait"
  /\ IF img_filled
     THEN /\ img_filled' = FALSE
          /\ fpc' = "frame"
          /\ UNCHANGED img_mtx
     ELSE /\ img_mtx' = "free"
          /\ fpc' = "blocked"
          /\ UNCHANGED img_filled
  /\ UNCHANGED <<lc, dstep, nAct, thread_ptrs, nCalls, is_activate_, open, is_called, pc, process_num,
                 img_buf, frame, body_filled, body_infos, detection_img, algo_result_,
                 loc, processing_status_, crashed, owed, cyc>>
  /\ UNCHANGED <<iouVars, trackVars, faceVars, ipcVars, body_mtx, proc_mtx, result_mtx, earlier, face_detect_, cur_time, now,
                 get_face_timeout, mat_tmp, events>>

\* The blocked wait returns: is_filled is set and the thread has locked the mutex.
FaceWake ==
  /\ ~crashed
  /\ fpc = "blocked"
  /\ img_filled
  /\ img_mtx = "free"
  /\ img_mtx' = "face"
  /\ img_filled' = FALSE
  /\ fpc' = "frame"
  /\ UNCHANGED <<lc, dstep, nAct, thread_ptrs, nCalls, is_activate_, open, is_called, pc, process_num,
                 img_buf, frame, body_filled, body_infos, detection_img, algo_result_,
                 loc, processing_status_, crashed, owed, cyc>>
  /\ UNCHANGED <<iouVars, trackVars, faceVars, ipcVars, body_mtx, proc_mtx, result_mtx, earlier, face_detect_, cur_time, now,
                 get_face_timeout, mat_tmp, events>>

\* The rest of the loop body: clone img_buf[0], check the pose of the frame and
\* publish the result of the check; an accepted pose (OK, or DUPLICATE when the
\* face is in the library already) ends the loop. lk_img unlocks the mutex at
\* the end of the iteration, whoever holds it. img_buf[0] of an empty vector is
\* undefined: the process dies or the clone holds garbage.
FaceFrame ==
  /\ ~crashed
  /\ fpc = "frame"
  /\ IF img_buf = <<>>
     THEN crashed' \in BOOLEAN /\ mat_tmp' = GarbageMat
     ELSE crashed' = crashed /\ mat_tmp' = MatOf(img_buf[1])
  /\ img_mtx' = "free"
  /\ IF crashed'
     THEN UNCHANGED <<events, fpc, get_face_timeout>>
     ELSE \E ret \in {"OK", "DUPLICATE", "POSE"} :
            /\ events' = Append(events, ret)
            /\ IF ret \in {"OK", "DUPLICATE"}
               THEN fpc' = "after" /\ UNCHANGED get_face_timeout
               ELSE fpc' = "loop" /\ get_face_timeout' = TRUE
  /\ UNCHANGED <<lc, dstep, nAct, thread_ptrs, nCalls, is_activate_, open, is_called, pc, process_num,
                 img_filled, img_buf, frame, body_filled, body_infos, detection_img,
                 algo_result_, loc, processing_status_, owed, cyc>>
  /\ UNCHANGED <<iouVars, trackVars, faceVars, ipcVars, body_mtx, proc_mtx, result_mtx, earlier, face_detect_, cur_time, now>>

\* if (get_face_timeout && face_detect_) publishFaceResult(3, ...)
FaceAfterLoop ==
  /\ ~crashed
  /\ fpc = "after"
  /\ fpc' = "done"
  /\ events' = IF get_face_timeout /\ face_detect_ THEN Append(events, "TIMEOUT")
               ELSE events
  /\ UNCHANGED <<pipeVars, iouVars, trackVars, lockVars, faceVars, ipcVars, earlier, face_detect_, cur_time, now,
                 get_face_timeout, mat_tmp>>

FaceDetProc == FaceLoopHead \/ FaceWait \/ FaceWake \/ FaceFrame \/ FaceAfterLoop

\* FaceManagerService, ADD_FACE with a user name, while the FaceDetProc thread
\* of an earlier ADD_FACE is running: the service does not look for a running
\* thread, it sets face_detect_ and starts a second detached thread. The thread
\* that was running goes on as the earlier task; its session was cancelled if
\* face_detect_ was clear. The model serves two threads at a time.
AddFaceAgain ==
  /\ ~crashed
  /\ fpc \notin {"none", "done"}
  /\ earlier.fpc = "none"
  /\ \E username \in Names :
       /\ face_call' = [command |-> "ADD_FACE", username |-> username, oriname |-> "",
                        result |-> "0"]
       /\ face_cache' = username
  /\ earlier' = [fpc |-> fpc, cur_time |-> cur_time,
                 get_face_timeout |-> get_face_timeout, mat_tmp |-> mat_tmp,
                 cancelled |-> ~face_detect_]
  /\ face_detect_' = TRUE
  /\ fpc' = "loop"
  /\ cur_time' = now
  /\ get_face_timeout' = TRUE
  /\ mat_tmp' = NoMat
  /\ UNCHANGED <<pipeVars, iouVars, trackVars, lockVars, ipcVars, now, events, face_lib,
                 nReq>>

\* The steps of the earlier thread, those of FaceDetProc on its own locals.
EarlierLoopHead ==
  /\ ~crashed
  /\ earlier.fpc = "loop"
  /\ earlier' = IF now - earlier.cur_time < kEnrollSeconds /\ face_detect_
                THEN [earlier EXCEPT !.fpc = "wait", !.get_face_timeout = FALSE]
                ELSE [earlier EXCEPT !.fpc = "after"]
  /\ UNCHANGED <<pipeVars, iouVars, trackVars, lockVars, faceVars, ipcVars, face_detect_,
                 fpc, cur_time, now, get_face_timeout, mat_tmp, events>>

EarlierWait ==
  /\ ~crashed
  /\ earlier.fpc = "wait"
  /\ IF img_filled
     THEN /\ img_filled' = FALSE
          /\ earlier' = [earlier EXCEPT !.fpc = "frame"]
          /\ UNCHANGED img_mtx
     ELSE /\ img_mtx' = "free"
          /\ earlier' = [earlier EXCEPT !.fpc = "blocked"]
          /\ UNCHANGED img_filled
  /\ UNCHANGED <<lc, dstep, nAct, thread_ptrs, nCalls, is_activate_, open, is_called, pc, process_num,
                 img_buf, frame, body_filled, body_infos, detection_img, algo_result_,
                 loc, processing_status_, crashed, owed, cyc>>
  /\ UNCHANGED <<iouVars, trackVars, faceVars, ipcVars, body_mtx, proc_mtx, result_mtx,
                 face_detect_, fpc, cur_time, now, get_face_timeout, mat_tmp, events>>

EarlierWake ==
  /\ ~crashed
  /\ earlier.fpc = "blocked"
  /\ img_filled
  /\ img_mtx = "free"
  /\ img_mtx' = "face"
  /\ img_filled' = FALSE
  /\ earlier' = [earlier EXCEPT !.fpc = "frame"]
  /\ UNCHANGED <<lc, dstep, nAct, thread_ptrs, nCalls, is_activate_, open, is_called, pc, process_num,
                 img_buf, frame, body_filled, body_infos, detection_img, algo_result_,
                 loc, processing_status_, crashed, owed, cyc>>
  /\ UNCHANGED <<iouVars, trackVars, faceVars, ipcVars, body_mtx, proc_mtx, result_mtx,
                 face_detect_, fpc, cur_time, now, get_face_timeout, mat_tmp, events>>

EarlierFrame ==
  /\ ~crashed
  /\ earlier.fpc = "frame"
  /\ img_mtx' = "free"
  /\ \E dies \in BOOLEAN, ret \in {"OK", "DUPLICATE", "POSE"} :
       LET mat == IF img_buf = <<>> THEN GarbageMat ELSE MatOf(img_buf[1]) IN
       /\ dies => img_buf = <<>>
       /\ ret = "OK" \/ ~dies
       /\ crashed' = dies
       /\ IF dies
          THEN /\ earlier' = [earlier EXCEPT !.mat_tmp = mat]
               /\ UNCHANGED events
          ELSE /\ events' = Append(events, ret)
               /\ earlier' = IF ret \in {"OK", "DUPLICATE"}
                             THEN [earlier EXCEPT !.mat_tmp = mat, !.fpc = "after"]
                             ELSE [earlier EXCEPT !.mat_tmp = mat, !.fpc = "loop",
                                                  !.get_face_timeout = TRUE]
  /\ UNCHANGED <<lc, dstep, nAct, thread_ptrs, nCalls, is_activate_, open, is_called, pc, process_num,
                 img_filled, img_buf, frame, body_filled, body_infos, detection_img,
                 algo_result_, loc, processing_status_, owed, cyc>>
  /\ UNCHANGED <<iouVars, trackVars, faceVars, ipcVars, body_mtx, proc_mtx, result_mtx,
                 face_detect_, fpc, cur_time, now, get_face_timeout, mat_tmp>>

EarlierAfterLoop ==
  /\ ~crashed
  /\ earlier.fpc = "after"
  /\ earlier' = [earlier EXCEPT !.fpc = "done"]
  /\ events' = IF earlier.get_face_timeout /\ face_detect_ THEN Append(events, "TIMEOUT")
               ELSE events
  /\ UNCHANGED <<pipeVars, iouVars, trackVars, lockVars, faceVars, ipcVars, face_detect_,
                 fpc, cur_time, now, get_face_timeout, mat_tmp>>

\* Time passes.
Tick ==
  /\ now < MaxClock
  /\ now' = now + TickSeconds
  /\ UNCHANGED <<pipeVars, iouVars, trackVars, lockVars, faceVars, ipcVars, earlier, face_detect_, fpc, cur_time,
                 get_face_timeout, mat_tmp, events>>

\* The critical section of ImageProc in two steps, as a thread that has not
\* locked global_img_buf_.mtx sees it: lock and img_buf.clear(), then
\* img_buf.push_back(simg), is_filled = true and unlock. The producer delivers
\* at most max frames.
ImageProcClear(max) ==
  /\ ~crashed
  /\ pc["img"] = "sem"
  /\ frame < max
  /\ img_mtx = "free"
  /\ img_mtx' = "img"
  /\ img_buf' = <<>>
  /\ pc' = [pc EXCEPT !["img"] = "push"]
  /\ UNCHANGED <<lc, dstep, nAct, thread_ptrs, nCalls, is_activate_, open, is_called, process_num,
                 img_filled, frame, body_filled, body_infos, detection_img,
                 algo_result_, loc, processing_status_, crashed, owed, cyc>>
  /\ UNCHANGED <<iouVars, trackVars, enrollVars, faceVars, ipcVars, body_mtx, proc_mtx, result_mtx>>

ImageProcPush ==
  /\ ~crashed
  /\ pc["img"] = "push"
  /\ frame' = frame + 1
  /\ img_buf' = <<frame'>>
  /\ img_filled' = TRUE
  /\ img_mtx' = "free"
  /\ pc' = [pc EXCEPT !["img"] = "top"]
  /\ UNCHANGED <<lc, dstep, nAct, thread_ptrs, nCalls, is_activate_, open, is_called, process_num,
                 body_filled, body_infos, detection_img, algo_result_, loc,
                 processing_status_, crashed, owed, cyc>>
  /\ UNCHANGED <<iouVars, trackVars, enrollVars, faceVars, ipcVars, body_mtx, proc_mtx, result_mtx>>

\* The face library service: any request, to a node that serves one enrollment
\* and receives no frame.
MaxRequests == 3

FaceRequest ==
  /\ nReq < MaxRequests
  /\ nReq' = nReq + 1
  /\ \E command \in Commands, username \in Names \cup {""}, oriname \in Names \cup {""} :
       FaceManagerService(command, username, oriname)

FaceNext ==
  \/ FaceRequest
  \/ FaceLoopHead
  \/ FaceWait
  \/ FaceAfterLoop

FaceSpec == EnrollInit /\ [][FaceNext]_vars

\* The frames the producer delivers during an enrollment.
MaxEnrollFrames == 2

\* The enrollment task next to the ingestion thread and the Stage-1 manager,
\* which clears global_img_buf_.is_filled too. The task and the manager are
\* scheduled and time passes; whether the producer delivers a frame is up to
\* the producer.
EnrollNext ==
  \/ AddFace
  \/ CancelAddFace
  \/ FaceLoopHead
  \/ FaceWait
  \/ FaceWake
  \/ FaceFrame
  \/ FaceAfterLoop
  \/ Tick
  \/ ImageProcTop
  \/ ImageProcClear(MaxEnrollFrames)
  \/ ImageProcPush
  \/ ManagerWait("main")
  \/ ManagerCheck("main")
  \/ \E i \in 1..3 : ManagerTrigger("main", i)
  \/ ManagerGate("main")

EnrollSpec ==
  /\ EnrollInit /\ [][EnrollNext]_vars
  /\ WF_vars(FaceDetProc)
  /\ WF_vars(Tick)
  /\ WF_vars(ImageProcTop)
  /\ WF_vars(ImageProcPush)
  /\ WF_vars(AlgoManager("main"))

\* The enrollment service under repeated requests: ADD_FACE and CANCLE_ADD_FACE
\* in any order, the threads they start, the ingestion thread and the clock.
SessionNext ==
  \/ AddFace
  \/ AddFaceAgain
  \/ CancelAddFace
  \/ FaceLoopHead
  \/ FaceWait
  \/ FaceWake
  \/ FaceFrame
  \/ FaceAfterLoop
  \/ EarlierLoopHead
  \/ EarlierWait
  \/ EarlierWake
  \/ EarlierFrame
  \/ EarlierAfterLoop
  \/ Tick
  \/ ImageProcTop
  \/ ImageProcClear(MaxEnrollFrames)
  \/ ImageProcPush

SessionSpec == EnrollInit /\ [][SessionNext]_vars

\* ------------------------------------------------ Frame Ingestion Bridge
\* A semaphore operation that never blocks.
NeverBlocks(s, i) == TRUE

\* WaitSem(sem_set_id_, i): the caller blocks until semaphore i is positive and
\* takes one unit; SignalSem(sem_set_id_, i) gives one unit. Either call can
\* fail, and then it changes nothing and returns non-zero.
CanWait(s, i) == s[i] > 0

WaitSem(s, i) == [s EXCEPT ![i] = @ - 1]

SignalSem(s, i) == [s EXCEPT ![i] = @ + 1]

\* The frames the producer writes into the shared memory.
MaxIpcFrames == 3

\* ImageProc, statement by statement. if (0 != WaitSem(sem_set_id_, 2)) {return;}
IpcWaitFull ==
  /\ ~crashed
  /\ pc["img"] = "sem"
  /\ \E ok \in BOOLEAN :
       IF ok
       THEN /\ CanWait(sem, SemFull)
            /\ sem' = WaitSem(sem, SemFull)
            /\ pc' = [pc EXCEPT !["img"] = "wmtx"]
       ELSE /\ sem' = sem
            /\ pc' = [pc EXCEPT !["img"] = "exited"]
  /\ UNCHANGED <<iouVars, trackVars, enrollVars, lockVars, faceVars, ppc, shm, simg>>
  /\ UNCHANGED <<lc, dstep, nAct, thread_ptrs, nCalls, is_activate_, open, is_called, process_num,
                 img_filled, img_buf, frame, body_filled, body_infos, detection_img,
                 algo_result_, loc, processing_status_, crashed, owed, cyc>>

\* if (0 != WaitSem(sem_set_id_, 0)) {return;}
IpcWaitMutex ==
  /\ ~crashed
  /\ pc["img"] = "wmtx"
  /\ \E ok \in BOOLEAN :
       IF ok
       THEN /\ CanWait(sem, SemMutex)
            /\ sem' = WaitSem(sem, SemMutex)
            /\ pc' = [pc EXCEPT !["img"] = "copy"]
       ELSE /\ sem' = sem
            /\ pc' = [pc EXCEPT !["img"] = "exited"]
  /\ UNCHANGED <<iouVars, trackVars, enrollVars, lockVars, faceVars, ppc, shm, simg>>
  /\ UNCHANGED <<lc, dstep, nAct, thread_ptrs, nCalls, is_activate_, open, is_called, process_num,
                 img_filled, img_buf, frame, body_filled, body_infos, detection_img,
                 algo_result_, loc, processing_status_, crashed, owed, cyc>>

\* The two memcpy from shm_addr_ into simg.
IpcCopy ==
  /\ ~crashed
  /\ pc["img"] = "copy"
  /\ simg' = shm
  /\ pc' = [pc EXCEPT !["img"] = "smtx"]
  /\ UNCHANGED <<iouVars, trackVars, enrollVars, lockVars, faceVars, sem, ppc, shm>>
  /\ UNCHANGED <<lc, dstep, nAct, thread_ptrs, nCalls, is_activate_, open, is_called, process_num,
                 img_filled, img_buf, frame, body_filled, body_infos, detection_img,
                 algo_result_, loc, processing_status_, crashed, owed, cyc>>

\* if (0 != SignalSem(sem_set_id_, 0)) {return;}
IpcSignalMutex ==
  /\ ~crashed
  /\ pc["img"] = "smtx"
  /\ \E ok \in BOOLEAN :
       IF ok
       THEN /\ sem' = SignalSem(sem, SemMutex)
            /\ pc' = [pc EXCEPT !["img"] = "semp"]
       ELSE /\ sem' = sem
            /\ pc' = [pc EXCEPT !["img"] = "exited"]
  /\ UNCHANGED <<iouVars, trackVars, enrollVars, lockVars, faceVars, ppc, shm, simg>>
  /\ UNCHANGED <<lc, dstep, nAct, thread_ptrs, nCalls, is_activate_, open, is_called, process_num,
                 img_filled, img_buf, frame, body_filled, body_infos, detection_img,
                 algo_result_, loc, processing_status_, crashed, owed, cyc>>

\* if (0 != SignalSem(sem_set_id_, 1)) {return;}
IpcSignalEmpty ==
  /\ ~crashed
  /\ pc["img"] = "semp"
  /\ \E ok \in BOOLEAN :
       IF ok
       THEN /\ sem' = SignalSem(sem, SemEmpty)
            /\ pc' = [pc EXCEPT !["img"] = "cell"]
       ELSE /\ sem' = sem
            /\ pc' = [pc EXCEPT !["img"] = "exited"]
  /\ UNCHANGED <<iouVars, trackVars, enrollVars, lockVars, faceVars, ppc, shm, simg>>
  /\ UNCHANGED <<lc, dstep, nAct, thread_ptrs, nCalls, is_activate_, open, is_called, process_num,
                 img_filled, img_buf, frame, body_filled, body_infos, detection_img,
                 algo_result_, loc, processing_status_, crashed, owed, cyc>>

\* Under global_img_buf_.mtx: clear, push_back(simg), is_filled = true.
IpcStore ==
  /\ ~crashed
  /\ pc["img"] = "cell"
  /\ Free(img_mtx)
  /\ img_buf' = <<simg>>
  /\ img_filled' = TRUE
  /\ pc' = [pc EXCEPT !["img"] = "top"]
  /\ UNCHANGED otherVars
  /\ UNCHANGED <<lc, dstep, nAct, thread_ptrs, nCalls, is_activate_, open, is_called, process_num,
                 frame, body_filled, body_infos, detection_img, algo_result_, loc,
                 processing_status_, crashed, owed, cyc>>

\* The producer of the frames, which follows the complementary protocol: wait
\* for "empty", wait for "mutex", write the frame, signal "mutex", signal "full".
ProducerWaitEmpty ==
  /\ ppc = "idle"
  /\ frame < MaxIpcFrames
  /\ CanWait(sem, SemEmpty)
  /\ sem' = WaitSem(sem, SemEmpty)
  /\ ppc' = "wmtx"
  /\ UNCHANGED <<pipeVars, iouVars, trackVars, enrollVars, lockVars, faceVars, shm, simg>>

ProducerWaitMutex ==
  /\ ppc = "wmtx"
  /\ CanWait(sem, SemMutex)
  /\ sem' = WaitSem(sem, SemMutex)
  /\ ppc' = "write"
  /\ UNCHANGED <<pipeVars, iouVars, trackVars, enrollVars, lockVars, faceVars, shm, simg>>

ProducerWrite ==
  /\ ppc = "write"
  /\ frame' = frame + 1
  /\ shm' = frame'
  /\ ppc' = "smtx"
  /\ UNCHANGED <<iouVars, trackVars, enrollVars, lockVars, faceVars, sem, simg>>
  /\ UNCHANGED <<lc, dstep, nAct, thread_ptrs, nCalls, is_activate_, open, is_called, pc, process_num,
                 img_filled, img_buf, body_filled, body_infos, detection_img,
                 algo_result_, loc, processing_status_, crashed, owed, cyc>>

ProducerSignalMutex ==
  /\ ppc = "smtx"
  /\ sem' = SignalSem(sem, SemMutex)
  /\ ppc' = "sfull"
  /\ UNCHANGED <<pipeVars, iouVars, trackVars, enrollVars, lockVars, faceVars, shm, simg>>

ProducerSignalFull ==
  /\ ppc = "sfull"
  /\ sem' = SignalSem(sem, SemFull)
  /\ ppc' = "idle"
  /\ UNCHANGED <<pipeVars, iouVars, trackVars, enrollVars, lockVars, faceVars, shm, simg>>

\* The ingestion thread of an active node, the Stage-1 manager it wakes, and
\* the producer.
IpcNext ==
  \/ ManagerWait("main")
  \/ ManagerCheck("main")
  \/ \E i \in 1..3 : ManagerTrigger("main", i)
  \/ ManagerGate("main")
  \/ ImageProcTop
  \/ IpcWaitFull
  \/ IpcWaitMutex
  \/ IpcCopy
  \/ IpcSignalMutex
  \/ IpcSignalEmpty
  \/ IpcStore
  \/ ProducerWaitEmpty
  \/ ProducerWaitMutex
  \/ ProducerWrite
  \/ ProducerSignalMutex
  \/ ProducerSignalFull

IpcSpec == EnrollInit /\ [][IpcNext]_vars

\* --------------------------------------------------------- the serving node
\* The frames the producer delivers to the serving node, and the algorithms the
\* clients have enabled on it.
MaxSteadyFrames == 2

SteadyEnabled == {{"body"}, {"body", "gesture"}}

\* The node after on_activate and AlgoManagerService: active, the threads at
\* the top of their loops, no frame delivered yet.
SteadyInit ==
  /\ lc = "active"
  /\ dstep = 0
  /\ nAct = 1
  /\ thread_ptrs = TRUE
  /\ nCalls = 1
  /\ is_activate_ = TRUE
  /\ open \in {[a \in Algos |-> a \in on] : on \in SteadyEnabled}
  /\ is_called = [a \in Algos |-> FALSE]
  /\ pc = CreateThread
  /\ process_num = 0
  /\ img_filled = FALSE
  /\ img_buf = <<>>
  /\ frame = 0
  /\ body_filled = FALSE
  /\ body_infos = <<>>
  /\ detection_img = 0
  /\ algo_result_ = EmptyReport
  /\ loc = [a \in Algos |-> NoLocal]
  /\ processing_status_ = STATUS_SELECTING
  /\ crashed = FALSE
  /\ owed = [a \in Algos |-> NoDebt]
  /\ cyc = NoCycle
  /\ IouIdle
  /\ TrackIdle
  /\ EnrollIdle
  /\ LockIdle
  /\ IpcIdle
  /\ FaceIdle

\* The threads of the serving node over several frames; no lifecycle
\* transition and no request arrives.
SteadyNext ==
  \/ ImageProcTop
  \/ ImageProcClear(MaxSteadyFrames)
  \/ ImageProcPush
  \/ \E m \in Managers : ManagerWait(m)
  \/ \E m \in Managers : ManagerCheck(m)
  \/ \E m \in Managers, i \in 1..3 : ManagerTrigger(m, i)
  \/ \E m \in Managers : ManagerGate(m)
  \/ \E m \in Managers : ManagerBlock(m)
  \/ \E m \in Managers : ManagerPublish(m)
  \/ \E w \in Algos : WorkerWake(w, Algos)
  \/ \E w \in Algos : WorkerCheck(w)
  \/ \E w \in Algos : Stage1Run(w)
  \/ BodyDetImage
  \/ \E w \in Algos : Stage2Run(w)
  \/ \E w \in Algos : WorkerStore(w)

SteadySpec == SteadyInit /\ [][SteadyNext]_vars

\* The algorithms enabled on the node whose stores are followed step by step.
StoreEnabled == {{"body", "face"}, {"body", "gesture"}}

StoreInit ==
  /\ lc = "active"
  /\ dstep = 0
  /\ nAct = 1
  /\ thread_ptrs = TRUE
  /\ nCalls = 1
  /\ is_activate_ = TRUE
  /\ open \in {[a \in Algos |-> a \in on] : on \in StoreEnabled}
  /\ is_called = [a \in Algos |-> FALSE]
  /\ pc = CreateThread
  /\ process_num = 0
  /\ img_filled = FALSE
  /\ img_buf = <<>>
  /\ frame = 0
  /\ body_filled = FALSE
  /\ body_infos = <<>>
  /\ detection_img = 0
  /\ algo_result_ = EmptyReport
  /\ loc = [a \in Algos |-> NoLocal]
  /\ processing_status_ = STATUS_SELECTING
  /\ crashed = FALSE
  /\ owed = [a \in Algos |-> NoDebt]
  /\ cyc = NoCycle
  /\ IouIdle
  /\ TrackIdle
  /\ EnrollIdle
  /\ LockIdle
  /\ IpcIdle
  /\ FaceIdle

\* The threads of that node, the store and the publication taken statement by
\* statement.
StoreNext ==
  \/ ImageProcTop
  \/ ImageProcIngest
  \/ \E m \in Managers : ManagerWait(m)
  \/ \E m \in Managers : ManagerCheck(m)
  \/ \E m \in Managers, i \in 1..3 : ManagerTrigger(m, i)
  \/ \E m \in Managers : ManagerGate(m)
  \/ \E m \in Managers : ManagerCount(m)
  \/ \E m \in Managers : ManagerPub(m)
  \/ \E w \in Algos : WorkerWake(w, Algos)
  \/ \E w \in Algos : WorkerCheck(w)
  \/ \E w \in Algos : Stage1Run(w)
  \/ BodyDetImage
  \/ \E w \in Algos : Stage2Run(w)
  \/ \E w \in Algos : StoreLock(w)
  \/ \E w \in Algos : StoreDecrement(w)
  \/ \E w \in Algos : StoreWrite(w)
  \/ \E w \in Algos : StoreNotify(w)

StoreSpec == StoreInit /\ [][StoreNext]_vars

\* The node with Body enabled, or Body and Gesture, whose clients change the
\* Stage-2 algorithms while it runs.
ToggleEnabled == {{"body"}, {"body", "gesture"}}

ToggleClients == {"gesture"}

ToggleInit ==
  /\ lc = "active"
  /\ dstep = 0
  /\ nAct = 1
  /\ thread_ptrs = TRUE
  /\ nCalls = 0
  /\ is_activate_ = TRUE
  /\ open \in {[a \in Algos |-> a \in on] : on \in ToggleEnabled}
  /\ is_called = [a \in Algos |-> FALSE]
  /\ pc = CreateThread
  /\ process_num = 0
  /\ img_filled = FALSE
  /\ img_buf = <<>>
  /\ frame = 0
  /\ body_filled = FALSE
  /\ body_infos = <<>>
  /\ detection_img = 0
  /\ algo_result_ = EmptyReport
  /\ loc = [a \in Algos |-> NoLocal]
  /\ processing_status_ = STATUS_SELECTING
  /\ crashed = FALSE
  /\ owed = [a \in Algos |-> NoDebt]
  /\ cyc = NoCycle
  /\ IouIdle
  /\ TrackIdle
  /\ EnrollIdle
  /\ LockIdle
  /\ IpcIdle
  /\ FaceIdle

ToggleNext ==
  \/ AlgoManagerService(ToggleClients)
  \/ ThreadStep(Algos)

\* Every thread is scheduled; when the clients call is up to them.
ToggleSpec ==
  /\ ToggleInit /\ [][ToggleNext]_vars
  /\ WF_vars(ImageProc)
  /\ \A m \in Managers : WF_vars(AlgoManager(m))
  /\ \A w \in Algos : WF_vars(Worker(w))

\* ------------------------------------------------------- scheduler properties
\* A step in which manager m publishes the report.
PublishStep(m) == pc[m] = "cnt" /\ pc'[m] = "wait"

\* Worker w was triggered by its manager and has not yet stored that result.
Outstanding(w) == owed[w].flag \/ owed[w].run

\* C1: a stage manager never publishes the Frame Report while a worker of its
\* stage that it triggered has not yet written its fields and decremented the
\* counter.
C1_PublishAfterCompletion ==
  [][\A m \in Managers :
       PublishStep(m) => \A w \in StageOf(m) : ~Outstanding(w)]_vars

\* No thread of the pipeline can take a step before something new arrives.
Quiescent ==
  /\ is_activate_ /\ dstep = 0 /\ ~crashed
  /\ pc["img"] = "sem"
  /\ \A m \in Managers : pc[m] = "wait" /\ ~Filled(m)
  /\ \A w \in Algos : pc[w] = "wait" /\ ~is_called[w]

\* C2: in every cycle each stage that has at least one enabled worker
\* publishes exactly one Frame Report, never zero and never more than one: when
\* the cycle's work is over each such stage has published once.
C2_OneReportPerStage ==
  Quiescent => /\ cyc.s1 => cyc.p1 = 1
               /\ cyc.s2 => cyc.p2 = 1

\* A step in which worker w stores its result in the report.
StoreStep(w) == pc[w] = "store" /\ pc'[w] # "store"

\* C3: the Gesture and Keypoints workers write their entries into the body
\* list the Body worker wrote for the same detection: never at an index outside
\* the list, and never into the list of another detection or before the Body
\* worker has written it.
C3_EntriesAlignWithBodyList ==
  [][\A w \in {"gesture", "keypoints"} :
       (StoreStep(w) /\ (w = "gesture" => loc[w].ok) /\ loc[w].n > 0)
         => /\ ~WritesOutside(w, loc[w], algo_result_)
            /\ algo_result_.body_hdr = loc[w].hdr]_vars

\* C4: once on_deactivate has set the service inactive, DestoryThread
\* eventually joins the ingestion thread, both managers and the six workers.
C4_DeactivationJoinsAll ==
  (dstep > 0) ~> (dstep = 0 \/ crashed)

\* ------------------------------------------------------------ IoU properties
\* The rectangles as sets of points: whether they overlap, and the area of
\* their intersection.
Max(a, b) == IF a > b THEN a ELSE b

InterW(r1, r2) ==
  Min(r1.left + r1.width, r2.x_offset + r2.width) - Max(r1.left, r2.x_offset)

InterH(r1, r2) ==
  Min(r1.top + r1.height, r2.y_offset + r2.height) - Max(r1.top, r2.y_offset)

Overlap(r1, r2) == InterW(r1, r2) > 0 /\ InterH(r1, r2) > 0

InterArea(r1, r2) == InterW(r1, r2) * InterH(r1, r2)

\* x = a * b, for a > 0, decided by division.
ProductIs(a, b, x) == x >= 0 /\ x % a = 0 /\ x \div a = b

\* x = area of r1 + area of r2 - area of the intersection.
UnionIs(x, r1, r2) ==
  ProductIs(r2.width, r2.height, x - (r1.width * r1.height) + InterArea(r1, r2))

\* C5: GetIOU returns 0 for every pair of rectangles that do not overlap.
C5_NoOverlapGivesZero ==
  (iou.done /\ ~Overlap(b1, b2)) => (~iou.ub /\ iou.num = 0 /\ iou.den # 0)

\* C6: for overlapping rectangles of positive area GetIOU is the intersection
\* area divided by (areaA + areaB - intersection area): the numerator the code
\* divides is the intersection area and the denominator is that sum.
C6_OverlapGivesQuotient ==
  (iou.done /\ Overlap(b1, b2))
    => /\ ~iou.ub
       /\ iou.num = InterArea(b1, b2)
       /\ iou.den > 0
       /\ UnionIs(iou.den, b1, b2)

\* ------------------------------------------------------- resolver properties
\* The union area of two rectangles, and IoU > 0.5 and the order of IoU values
\* as numbers.
UnionArea(r1, r2) ==
  (r1.width * r1.height) + (r2.width * r2.height) - InterArea(r1, r2)

Qualifies(r, roi) == Overlap(r, roi) /\ 2 * InterArea(r, roi) > UnionArea(r, roi)

IouAtLeast(r1, r2, roi) ==
  IF ~Overlap(r2, roi) THEN TRUE
  ELSE Overlap(r1, roi)
       /\ InterArea(r1, roi) * UnionArea(r2, roi) >= InterArea(r2, roi) * UnionArea(r1, roi)

\* The history entries (1 is the oldest) holding a detection with IoU > 0.5,
\* and the detections of an entry with the maximum IoU.
QualifyingEntries(h, roi) ==
  {i \in 1..Len(h) : \E j \in 1..Len(h[i]) : Qualifies(h[i][j], roi)}

Newest(S) == CHOOSE i \in S : \A k \in S : k <= i

BestOf(entry, roi) ==
  {entry[j] : j \in {x \in 1..Len(entry) :
                      \A y \in 1..Len(entry) : IouAtLeast(entry[x], entry[y], roi)}}

\* The request was served with ReID enabled, so that GetMatchBody ran.
Resolved == track.called /\ open["reid"]

\* C7: GetMatchBody resolves to the detection with the maximum IoU of the most
\* recent history entry that holds a detection with IoU > 0.5 against the
\* requested region.
C7_ResolvesToNewestMatch ==
  (Resolved /\ QualifyingEntries(body_infos, track.roi) # {})
    => /\ track.scan.is_found
       /\ track.scan.track_rect
            \in BestOf(body_infos[Newest(QualifyingEntries(body_infos, track.roi))],
                       track.roi)

\* C8: GetMatchBody fails to find a body only when no entry of the history
\* holds a detection with IoU > 0.5, and on an empty history it fails without
\* reading any entry.
C8_FailsOnlyWithoutMatch ==
  /\ ~crashed
  /\ Resolved =>
       /\ ~track.scan.outside
       /\ ~track.scan.is_found => QualifyingEntries(body_infos, track.roi) = {}

\* C9: when GetMatchBody fails on a history that holds entries (no match, or
\* the ReID tracker refuses the target) TrackingService answers success = false
\* and leaves the processing status and both trackers as they were.
C9_FailureMutatesNothing ==
  [][(~track.called /\ track'.called /\ open["reid"] /\ body_infos # <<>>
        /\ ~GetMatchBodyReturnsZero(track'.scan, track'.reid_set))
      => /\ ~track'.success
         /\ UNCHANGED <<processing_status_, reid_target, focus_target>>]_vars

\* ---------------------------------------------------------- enrollment properties
\* A frame passed the pose check.
PosePassed == \E i \in 1..Len(events) : events[i] \in {"OK", "DUPLICATE"}

TimeoutPublished == \E i \in 1..Len(events) : events[i] = "TIMEOUT"

\* C10: an enrollment session in which no frame passes the pose check, and
\* which is not cancelled, eventually publishes TIMEOUT, also when no frame
\* arrives at all.
C10_TimeoutIsPublished ==
  (fpc # "none") ~> (TimeoutPublished \/ PosePassed \/ ~face_detect_)

\* The terminal outcomes of an enrollment, and how many of them were published.
Terminal == {"OK", "DUPLICATE", "TIMEOUT", "INVALID_ARGS", "CANCELLED"}

TerminalCount == Cardinality({i \in 1..Len(events) : events[i] \in Terminal})

\* C11: an enrollment that has ended has published exactly one terminal
\* outcome: never none and never two.
C11_OneTerminalOutcome ==
  (fpc = "done") => TerminalCount = 1

\* The cancel-add request was handled while the enrollment task existed.
CancelHandled == fpc # "none" /\ ~face_detect_

\* C12: once the cancel-add request has been handled the enrollment task
\* publishes no further face-result event, wherever it is in its loop.
C12_NoEventAfterCancel ==
  [][CancelHandled => events' = events]_vars

\* ------------------------------------------------- Latest-Frame Cell properties
\* A step in which the enrollment task, or Stage-1 worker w, takes the frame of
\* the Latest-Frame Cell.
FaceReadStep == fpc = "frame" /\ fpc' # "frame"

WorkerReadStep(w) == w \in Stage1 /\ pc[w] = "run" /\ pc'[w] = "store"

\* C13: the Latest-Frame Cell holds at most one frame, and a consumer that
\* reads it after an ingestion has completed obtains the most recently
\* ingested frame.
C13_CellYieldsLatestFrame ==
  [][/\ Len(img_buf') <= 1
     /\ (FaceReadStep /\ frame > 0 /\ ~crashed') => mat_tmp' = MatOf(frame)
     /\ \A w \in Algos :
          (WorkerReadStep(w) /\ frame > 0 /\ ~crashed') => loc'[w].hdr = frame]_vars

\* ------------------------------------------------- Detection History properties
\* What an insert keeps of a history: all of it, or all but the oldest entry
\* when the history holds 6 entries.
Kept(h) == IF Len(h) >= 6 THEN SubSeq(h, 2, Len(h)) ELSE h

\* C14: Detection History never holds more than 6 entries; an insert adds one
\* entry at the end, evicts exactly the oldest entry of a full history, and
\* leaves the remaining entries unchanged and in order.
C14_HistoryBounded ==
  [][/\ Len(body_infos') <= 6
     /\ body_infos' # body_infos
          => /\ Len(body_infos') = Len(Kept(body_infos)) + 1
             /\ SubSeq(body_infos', 1, Len(Kept(body_infos))) = Kept(body_infos)]_vars

\* The Body worker has inserted a detection into a full history: the history
\* holds 6 entries and the entry that was the oldest is gone.
C14_Evicted ==
  /\ pc["body"] = "store" /\ loc["body"].ok
  /\ Len(body_infos) = 6
  /\ \A i \in 1..Len(body_infos) : body_infos[i] # OldestEntry

\* ---------------------------------------------------------- lifecycle properties
\* Every thread CreateThread started is running.
ThreadsRunning(p) == \A t \in Threads : p[t] \notin {"none", "exited"}

\* The step in which on_deactivate returns FAILURE.
DeactivateFails == dstep = 9 /\ dstep' = 0 /\ lc' = "active"

\* C15: when the camera call fails the transition fails and the service is as
\* before the call: not active and without threads after a failed activate;
\* active, with its threads running and the same algorithms enabled after a
\* failed deactivate.
C15_FailedTransitionKeepsState ==
  [][/\ (lc' = "inactive" /\ dstep' = 0)
          => (~is_activate_' /\ \A t \in Threads : pc'[t] = "none")
     /\ (lc' = "active" /\ dstep' = 0 /\ ~crashed')
          => (is_activate_' /\ ThreadsRunning(pc'))
     /\ DeactivateFails => open' = open]_vars

\* --------------------------------------------------------- face library properties
\* A request without the identity its command needs, or with an unknown command.
Malformed(c) ==
  \/ c.command \in {"ADD_FACE", "CONFIRM_LAST_FACE", "DELETE_FACE"} /\ c.username = ""
  \/ c.command = "UPDATE_FACE_ID" /\ (c.username = "" \/ c.oriname = "")
  \/ c.command = "OTHER"

\* C16: a malformed face-library request is answered with an error result and
\* has no side effect: no enrollment task is started, face_detect_ and the
\* face library are unchanged.
C16_MalformedRequestRejected ==
  [][(nReq' # nReq /\ Malformed(face_call'))
       => /\ face_call'.result \in {"-1", "RESULT_INVALID_ARGS"}
          /\ UNCHANGED <<face_detect_, fpc, face_lib, face_cache>>]_vars

\* A malformed request was refused while an enrollment was running and the
\* library held an identity.
C16_Refused ==
  /\ Malformed(face_call) /\ face_call.result \in {"-1", "RESULT_INVALID_ARGS"}
  /\ face_detect_ /\ face_lib # {}

\* ------------------------------------------------------------ counter properties
\* C17: process_num equals the number of workers a stage manager has triggered
\* and that have not yet decremented it, and it is never negative.
C17_CounterCountsOutstanding ==
  ~crashed => /\ process_num >= 0
              /\ process_num = Cardinality({w \in Algos : Outstanding(w)})


\* C18: a Stage-2 worker takes its snapshot of the Detection History only when
\* no other thread holds the Detection History lock, and never while the Body
\* worker is inside its insert.
Stage2ReadStep(w) == w \in Stage2 /\ pc[w] = "run" /\ pc'[w] = "store"

C18_SnapshotUnderLock ==
  [][\A w \in Algos : Stage2ReadStep(w) => (body_mtx = "free" /\ ~BodyInserting)]_vars

\* C19: whenever the Stage-1 manager has left the report of a cycle to Stage 2,
\* the Stage-2 manager eventually publishes and resets it, unless the service
\* is deactivated or the process dies first.
LeftForStage2 ==
  /\ is_activate_
  /\ ~crashed
  /\ pc["main"] = "wait"
  /\ cyc.s2
  /\ cyc.p1 = 0
  /\ cyc.p2 = 0

Stage2Published == cyc.p2 >= 1

C19_Stage2EventuallyPublishes ==
  LeftForStage2 ~> (Stage2Published \/ ~is_activate_ \/ crashed)


\* C20: a manager sets the trigger flag of a worker, and counts it, only when
\* the worker is not inside an invocation and its flag is clear; a worker that
\* is still running, or whose flag is still set, is skipped without a count.
TriggerStep(a) == is_activate_ /\ ~is_called[a] /\ is_called'[a]

InInvocation(a) == pc[a] \in {"chk", "run", "img", "store"}

C20_RunningWorkerSkipped ==
  [][/\ \A a \in Algos : TriggerStep(a) => ~InInvocation(a)
     /\ process_num' > process_num => \E a \in Algos : TriggerStep(a)]_vars


\* C21: the decrement of the counter and the write of the worker's fields are
\* one critical section that excludes publishing: no manager is publishing
\* while a worker is between the lock and the unlock of its store, so no
\* published report misses the fields of a worker that has decremented.
InStore(w) == pc[w] \in {"dec", "wr", "ntf"}

Publishing(m) == pc[m] = "pub"

C21_StoreExcludesPublish ==
  \A w \in Algos, m \in Managers : ~(InStore(w) /\ Publishing(m))

C21_PublishAfterStores ==
  /\ Publishing("main")
  /\ algo_result_.body_hdr > 0
  /\ algo_result_.face_hdr > 0
  /\ process_num = 0

\* C22: a thread that calls an inference collaborator holds no mutex that
\* another thread acquires: the step in which a worker calls its collaborator
\* leaves the worker with none of the shared mutexes.
CollaboratorCall(w) == pc[w] = "run" /\ pc'[w] # "run"

C22_NoCallUnderSharedLock ==
  [][\A w \in Algos : CollaboratorCall(w) =>
        (img_mtx' # w /\ body_mtx' # w /\ proc_mtx' # w /\ result_mtx' # w)]_vars

\* C23: the store of a worker changes only the field group the worker owns:
\* the body list and its header are Body's, the face list is Face's, the track
\* rectangle belongs to Focus or ReID, the gesture of a body is Gesture's and
\* the keypoints of a body are Keypoints'; what another worker has written is
\* neither changed nor erased.
BodyGroupKept(old, new) ==
  /\ new.body_hdr = old.body_hdr
  /\ Len(new.infos) = Len(old.infos)
  /\ \A i \in 1..Len(old.infos) : new.infos[i].roi = old.infos[i].roi

GestureGroupKept(old, new) ==
  \A i \in 1..Len(old.infos) :
    old.infos[i].gesture # 0 =>
      (i <= Len(new.infos) /\ new.infos[i].gesture = old.infos[i].gesture)

KeypointsGroupKept(old, new) ==
  \A i \in 1..Len(old.infos) :
    old.infos[i].keypoints # 0 =>
      (i <= Len(new.infos) /\ new.infos[i].keypoints = old.infos[i].keypoints)

C23_WritesOwnFieldsOnly ==
  [][\A w \in Algos : (StoreStep(w) /\ ~crashed') =>
       /\ w # "body" => BodyGroupKept(algo_result_, algo_result_')
       /\ w # "face" => algo_result_'.face_hdr = algo_result_.face_hdr
       /\ w \notin {"focus", "reid"} => algo_result_'.track_hdr = algo_result_.track_hdr
       /\ w # "gesture" => GestureGroupKept(algo_result_, algo_result_')
       /\ w # "keypoints" => KeypointsGroupKept(algo_result_, algo_result_')]_vars

\* C24: when GetMatchBody resolves the target, the image it hands to
\* reid_ptr_->SetTracker is the frame on which the matched history entry was
\* detected, whichever entry matched.
DetectedOn(i) == detection_img - (Len(body_infos) - i)

SetTrackerCalled == Resolved /\ track.scan.is_found /\ ~track.scan.outside

C24_TrackerGetsFrameOfMatch ==
  SetTrackerCalled => track.scan.track_img = DetectedOn(track.scan.at)

\* C25: the nine threads exist only between a successful on_activate and the
\* return of the following on_deactivate: no thread exists while the node is
\* unconfigured or inactive or after on_deactivate has returned, and a thread
\* comes into existence only in a step that takes the node from inactive to
\* active.
NoThreads(p) == \A t \in Threads : p[t] = "none"

OutsideSession(l, d, act) == d = 0 /\ (l # "active" \/ ~act)

C25_ThreadsOnlyInSession ==
  [][/\ OutsideSession(lc', dstep', is_activate_') => NoThreads(pc')
     /\ \A t \in Threads :
          (pc[t] = "none" /\ pc'[t] # "none") => (lc = "inactive" /\ lc' = "active")]_vars

C25_SessionEnded ==
  /\ lc = "inactive"
  /\ dstep = 0
  /\ nAct >= 1
  /\ frame > 0
  /\ NoThreads(pc)

\* C26: ImageProc copies the payload only after it has taken "full" and then
\* "mutex", and gives back "mutex" and then "empty" after the copy; when one of
\* the four calls fails the thread exits and the Latest-Frame Cell is not
\* written; the Cell receives what was copied; and the copy never overlaps a
\* write of the producer.
Copying == pc["img"] = "copy"

Writing == ppc = "write"

Enters(p) == pc["img"] # p /\ pc'["img"] = p

C26_BridgeProtocol ==
  [][/\ ~(Copying' /\ Writing')
     /\ Enters("wmtx") => (pc["img"] = "sem" /\ sem'[SemFull] = sem[SemFull] - 1)
     /\ Enters("copy") => (pc["img"] = "wmtx" /\ sem'[SemMutex] = sem[SemMutex] - 1)
     /\ simg' # simg => (Copying /\ simg' = shm)
     /\ Enters("semp") => (pc["img"] = "smtx" /\ sem'[SemMutex] = sem[SemMutex] + 1)
     /\ Enters("cell") => (pc["img"] = "semp" /\ sem'[SemEmpty] = sem[SemEmpty] + 1)
     /\ img_buf' # img_buf => (pc["img"] = "cell" /\ img_buf' = <<simg>>)
     /\ Enters("exited") => UNCHANGED <<img_buf, img_filled>>]_vars

C26_FrameTakenWhileNextIsWritten ==
  /\ img_buf = <<1>>
  /\ Writing
  /\ shm = 1

\* C27: an enrollment task does not take frames from the pipeline: the filled
\* flag of the Latest-Frame Cell, once set by the ingestion thread, is cleared
\* by the Stage-1 manager only, which wakes for the frame.
ManagerWakes == pc["main"] = "wait" /\ pc'["main"] = "chk"

C27_EnrollmentLeavesFramesToManager ==
  [][(img_filled /\ ~img_filled') => ManagerWakes]_vars

\* C28: the processing status is TRACKING only if a tracking-target request
\* has been answered with success since the session started in SELECTING
\* (requests whose scan read outside the history are left aside).
C28_TrackingOnlyAfterSuccess ==
  (processing_status_ = STATUS_TRACKING /\ ~track.scan.outside)
    => (track.called /\ track.success)

\* C29: a manager that is blocked waiting for the counter to be zero, while
\* the counter is zero, eventually wakes (unless the service is deactivated or
\* the counter leaves zero first).
BlockedAtZero(m) == pc[m] = "blocked" /\ CounterIsZero /\ is_activate_ /\ ~crashed

C29_BlockedManagerWakes ==
  \A m \in Managers :
    BlockedAtZero(m) ~> (pc[m] # "blocked" \/ ~CounterIsZero \/ ~is_activate_ \/ crashed)

\* ------------------------------------------------------------ clean session
\* The step on which on_activate starts the threads of a session.
SessionStarts == lc = "inactive" /\ lc' = "active"

\* The scheduler state in which no manager and no worker has anything to do
\* before a frame arrives.
CleanScheduler(called, imgf, bodyf, num) ==
  /\ \A a \in Algos : ~called[a]
  /\ ~imgf
  /\ ~bodyf
  /\ num = 0

\* C30: every Active session starts from a clean scheduler state: at the
\* moment the threads of a (re-)activation start, every worker trigger flag is
\* clear, both filled flags are clear and the counter is 0.
C30_SessionStartsClean ==
  [][SessionStarts => CleanScheduler(is_called', img_filled', body_filled', process_num')]_vars

\* ------------------------------------------------------- reads of the newest frame
\* The steps that read the newest frame of the Latest-Frame Cell: a Stage-1
\* worker (img_buf.back()), TrackingService with Focus enabled (img_buf.back())
\* and the enrollment task (img_buf[0]).
WorkerTakesFrame(w) == w \in Stage1 /\ pc[w] = "run" /\ pc'[w] # "run"

TrackingTakesFrame == ~track.called /\ track'.called /\ open["focus"]

\* C31: every read of the newest frame happens when the Latest-Frame Cell
\* holds a frame, for any order of control-plane calls, including a tracking
\* request with Focus enabled before the first frame has been ingested.
C31_ReadsFindAFrame ==
  [][((\E w \in Algos : WorkerTakesFrame(w)) \/ TrackingTakesFrame \/ FaceReadStep)
       => img_buf # <<>>]_vars

\* ------------------------------------------------------- enrollment sessions
\* A FaceDetProc thread that has started and not returned.
Running(p) == p \notin {"none", "done"}

\* The earlier thread captures a frame and publishes its check, or publishes
\* the timeout.
EarlierActs ==
  \/ earlier.fpc = "frame" /\ earlier'.fpc # "frame"
  \/ earlier.fpc = "after" /\ events' # events

\* C32: at most one enrollment task is running at any time, and a cancelled
\* enrollment session never resumes: after a cancel-add and a new add-face the
\* task of the cancelled session does not go on to capture or publish.
C32_OneEnrollmentTask ==
  [][/\ ~(Running(fpc') /\ Running(earlier'.fpc))
     /\ earlier.cancelled => ~EarlierActs]_vars

\* ------------------------------------------------------------- destruction
\* The step in which the destructor runs DestoryThread.
DestructorRuns == lc # "destroyed" /\ lc' = "destroyed"

\* C33: destroying the node never accesses a thread object that was released
\* or never created: after configure, activate, deactivate and cleanup, and
\* when the node was never activated, the destructor's DestoryThread finds the
\* thread pointers set.
C33_DestructorFindsThreads == [][DestructorRuns => thread_ptrs]_vars

\* ------------------------------------------------------------ ReID result
\* ReIDProc stores a result in which ReID returned a person id.
ReidStoresId == StoreStep("reid") /\ loc["reid"].ok

\* C34: when ReID returns a person id, AddReid writes that id into a body
\* entry of the report (the one whose region has the highest IoU with the
\* tracked box), and it never indexes into an empty body list.
C34_ReidWrittenToBody ==
  [][ReidStoresId =>
       /\ algo_result_.infos # <<>>
       /\ ~crashed' => \E i \in 1..Len(algo_result_'.infos) :
                         algo_result_'.infos[i].reid = person_id]_vars

====
